---------------------------- MODULE Spec2Model ----------------------------
(***************************************************************************)
(* The lock-free audio bridge of glazer's AppKit platform layer            *)
(* (src/src/platform.rs): the frame tick `update` (producer) and the       *)
(* CoreAudio render callback `audio_callback` (consumer) share the ring    *)
(* AUDIO_SAMPLES and the packed index AUDIO_SAMPLES_INDICES.               *)
(*                                                                         *)
(* Every shared-memory access of the two functions is one step, so TLC     *)
(* explores every interleaving of the main thread and the audio thread.    *)
(* The index is loaded with Acquire and published with Release, so the     *)
(* plain ring accesses are ordered by the index accesses and a             *)
(* sequentially consistent interleaving model is exact for this code.      *)
(*                                                                         *)
(* The user update is modelled as the test harness of the spec's section 8 *)
(* does: it tags every synthesized sample with the next generation number  *)
(* 1, 2, 3, ...; the ring's initial contents are 0.                        *)
(***************************************************************************)
EXTENDS Integers, Sequences, FiniteSets, TLC

(* ------------------------------ bounds --------------------------------- *)

\* Ring capacity in frames (the program uses 2048 frames = 4096 samples).
RingFrames == 4
\* Largest frame count the hardware requests in one callback.
MaxFrames == 3
\* Number of frame ticks explored (caps the generation counter).
MaxTicks == 3

(* --------------------------- program constants ------------------------- *)

CHANNELS == 2

AUDIO_SAMPLES_LEN == CHANNELS * RingFrames

\* What the hardware's destination buffer holds before the callback fills it.
Garbage == -1

Slots == 0 .. (AUDIO_SAMPLES_LEN - 1)

VARIABLES
    AUDIO_SAMPLES,          \* the ring: [Slots -> sample]
    GAME_SAMPLES,           \* scratch buffer the user update writes into
    AUDIO_SAMPLES_INDICES,  \* packed index: [write, read]
    p,                      \* locals of update (the frame tick)
    c,                      \* locals of audio_callback
    data,                   \* destination buffer of the current/last callback
    gen,                    \* last generation tag handed out by the user update
    ticks,                  \* completed frame ticks
    copiedIn,               \* history: samples the producer stored in the ring
    copiedOut,              \* history: samples the consumer copied from the ring
    published,              \* history: total samples published by the producer
    released,               \* history: total samples released by the consumer
    panic,                  \* "none", or the assertion/check that aborted
    now,                    \* the wall clock read by Instant::now()
    ivars,                  \* GameViewIvars: last_time, borrow state of update
    requests,               \* history: the PlatformRequests the user closure got
    PREVIOUS_MODIFIER_FLAGS, \* static of flags_changed
    delivered,              \* history: raw events the platform delivered
    lib,                    \* the GameView of lib.rs: fb, update, last_time
    steady,                 \* schedule of the alternating tick/drain run
    demo,                   \* demo/src/lib.rs: the INIT flags and the calls made
    other,                  \* a second tick's locals and view, while it is not running
    Memory,                 \* demo/src/lib.rs: the Memory the demo's callbacks are given
    inputs                  \* the inputs handle_input has been called with

vars == <<AUDIO_SAMPLES, GAME_SAMPLES, AUDIO_SAMPLES_INDICES, p, c, data, gen,
          ticks, copiedIn, copiedOut, published, released, panic, now, ivars,
          requests, PREVIOUS_MODIFIER_FLAGS, delivered, lib, steady, demo,
          other, Memory, inputs>>

\* What neither update nor audio_callback touches.
restVars == <<PREVIOUS_MODIFIER_FLAGS, delivered, lib, steady, demo, other,
              Memory, inputs>>

(* --------------------------- packed index ------------------------------ *)

\* (write << 32) | read.  The halves are kept as two fields of one value that
\* is loaded and compare-and-swapped as a unit.
Pack(w, r) == [write |-> w, read |-> r]

\* indices >> 32
WriteHalf(indices) == indices.write

\* indices & u32::MAX
ReadHalf(indices) == indices.read

(* ------------------------- pure computations --------------------------- *)

\* update: samples_to_write.  A negative value stands for the usize
\* subtraction underflowing.
SamplesToWriteNoOccupancy(write_index, wrapped_read_index) ==
    AUDIO_SAMPLES_LEN - CHANNELS

SamplesToWriteNoReserve(write_index, wrapped_read_index) ==
    IF write_index >= wrapped_read_index
    THEN (wrapped_read_index + AUDIO_SAMPLES_LEN - write_index) % AUDIO_SAMPLES_LEN
    ELSE wrapped_read_index - write_index

\* samples_to_write keeping two channel groups free in place of one.
SamplesToWriteTwoReserved(write_index, wrapped_read_index) ==
    IF write_index >= wrapped_read_index
    THEN (wrapped_read_index + AUDIO_SAMPLES_LEN - write_index - 2 * CHANNELS)
             % AUDIO_SAMPLES_LEN
    ELSE wrapped_read_index - write_index - 2 * CHANNELS

\* samples_to_write by the second branch alone.
SamplesToWriteOneBranch(write_index, wrapped_read_index) ==
    wrapped_read_index - write_index - CHANNELS

SamplesToWrite(write_index, wrapped_read_index) ==
    IF write_index >= wrapped_read_index
    THEN (wrapped_read_index + AUDIO_SAMPLES_LEN - write_index - CHANNELS)
             % AUDIO_SAMPLES_LEN
    ELSE wrapped_read_index - write_index - CHANNELS

\* available_samples without its wrapped branch.
AvailableSamplesNoWrap(wrapped_write_index, read_index) ==
    wrapped_write_index - read_index

\* available_samples taking a region that wraps past the end of the ring
\* for an empty one.
AvailableSamplesWrapEmpty(wrapped_write_index, read_index) ==
    IF wrapped_write_index >= read_index
    THEN wrapped_write_index - read_index
    ELSE 0

\* audio_callback: available_samples.
AvailableSamples(wrapped_write_index, read_index) ==
    IF wrapped_write_index >= read_index
    THEN wrapped_write_index - read_index
    ELSE wrapped_write_index + AUDIO_SAMPLES_LEN - read_index

\* The larger of the two.
Max(a, b) == IF a >= b THEN a ELSE b

Min(a, b) == IF a <= b THEN a ELSE b

\* update: the closure given to fetch_update.
NewWriteIndexNoWrap(write_index, samples_to_write) ==
    write_index + samples_to_write

NewWriteIndexPastCopied(write_index, samples_to_write) ==
    (write_index + samples_to_write + CHANNELS) % AUDIO_SAMPLES_LEN

NewWriteIndex(write_index, samples_to_write) ==
    (write_index + samples_to_write) % AUDIO_SAMPLES_LEN

ProducerNewIndicesStaleRead(current_indices, write_index, stale_read_index, n) ==
    Pack(NewWriteIndex(write_index, n), stale_read_index)

\* The closure advancing the write half it finds in current_indices (an
\* atomic add) in place of storing the tick's own write_index + n.
ProducerNewIndicesRelative(current_indices, write_index, stale_read_index, n) ==
    Pack(NewWriteIndex(WriteHalf(current_indices), n), ReadHalf(current_indices))

\* stale_read_index is the read half of the tick's first load, which the
\* closure does not use: it takes the read half of current_indices.
ProducerNewIndices(current_indices, write_index, stale_read_index, n) ==
    Pack(NewWriteIndex(write_index, n), ReadHalf(current_indices))

\* audio_callback: the closure given to fetch_update.
NewReadIndexWholeRequest(read_index, samples_to_read, samples_needed) ==
    (read_index + samples_needed) % AUDIO_SAMPLES_LEN

NewReadIndexNoWrap(read_index, samples_to_read, samples_needed) ==
    read_index + samples_to_read

NewReadIndex(read_index, samples_to_read, samples_needed) ==
    (read_index + samples_to_read) % AUDIO_SAMPLES_LEN

\* The consumer's exchange leaving the read half as it found it.
ConsumerNewIndicesNoPublish(current_indices, read_index, samples_to_read, samples_needed) ==
    current_indices

ConsumerNewIndices(current_indices, read_index, samples_to_read, samples_needed) ==
    Pack(WriteHalf(current_indices),
         NewReadIndex(read_index, samples_to_read, samples_needed))

\* audio_callback: the ring slot copied into channel ch of a frame
\* (frame[0] = AUDIO_SAMPLES[index]; frame[1] = AUDIO_SAMPLES[index + 1]).
FrameSlotSameChannel(index, ch) == index

FrameSlot(index, ch) == index + ch

\* audio_callback: the destination after the underrun branch zeroed
\* data[i * CHANNELS] and data[i * CHANNELS + 1] for i in frames_to_read..frames.
ZeroFillFirstChannel(buf, frames_to_read, frames) ==
    [i \in DOMAIN buf |->
        IF /\ i >= frames_to_read * CHANNELS
           /\ i < frames * CHANNELS
           /\ i % CHANNELS = 0
        THEN 0 ELSE buf[i]]

ZeroFill(buf, frames_to_read, frames) ==
    [i \in DOMAIN buf |->
        IF i >= frames_to_read * CHANNELS /\ i < frames * CHANNELS
        THEN 0 ELSE buf[i]]

\* debug.rs 6-9: one log! with arguments makes one alloc::format! String.
LogAllocations == 1

\* debug.rs 7-8: one log! with arguments calls log, hence std::print!, twice.
LogPrints == 2

(* ------------------------------ Init ----------------------------------- *)

PIdle == [pc |-> "idle", write_index |-> 0, wrapped_read_index |-> 0,
          samples_to_write |-> 0, index |-> 0, copied |-> 0,
          current_indices |-> Pack(0, 0), displayed |-> FALSE, delta |-> 0]

CIdle == [pc |-> "idle", frames |-> 0, wrapped_write_index |-> 0,
          read_index |-> 0, available_samples |-> 0, samples_needed |-> 0,
          samples_to_read |-> 0, frames_to_read |-> 0, index |-> 0,
          copied |-> 0, current_indices |-> Pack(0, 0), underruns |-> 0,
          ret |-> -1, calls |-> 0, allocations |-> 0, blocking_calls |-> 0]

\* lib.rs GameView::new: fb and update are unborrowed RefCells, last_time is
\* the construction time.  granted and deltas record, for each tick that got
\* the frame buffer, its time and the delta it handed to the user update.
LibInit ==
    [fb |-> "free", update |-> "free", last_time |-> 0, pc |-> "idle",
     ticks |-> 0, drops |-> 0, granted |-> <<>>, deltas |-> <<>>,
     displayed |-> FALSE]

\* The schedule of the alternating run is not in force.
SteadyOff == [phase |-> "off", frames |-> 0, observed |-> <<>>]

\* demo/src/lib.rs 14 and 33: both INIT statics start false; no call made.
DemoInit ==
    [INIT |-> [f \in {"frame_buffer", "memory"} |-> FALSE], calls |-> <<>>]

\* demo/src/lib.rs 45-50: the Memory that memory() returns: the depth
\* buffer, the camera at (0.0, 1.5, -5.0), every other field its Default.
MemoryInit ==
    [depth_buffer |-> "DEPTH_BUFFER", camera |-> "Vec3(0.0, 1.5, -5.0)",
     left_pressed |-> FALSE, right_pressed |-> FALSE,
     forward_pressed |-> FALSE, back_pressed |-> FALSE,
     up_pressed |-> FALSE, down_pressed |-> FALSE,
     pitch |-> 0, yaw |-> 0, t |-> 0, angle |-> 0, phase |-> 0]

\* A second view before its first tick.
OtherInit == [p |-> PIdle, ivars |-> [last_time |-> 0, update |-> "free"]]

\* The statics with a packed index of write 0, read 0: nothing pre-published.
InitEmptyRing ==
    /\ AUDIO_SAMPLES = [i \in Slots |-> 0]
    /\ GAME_SAMPLES = [i \in Slots |-> 0]
    /\ AUDIO_SAMPLES_INDICES = Pack(0, 0)
    /\ p = PIdle
    /\ c = CIdle
    /\ data = <<>>
    /\ gen = 0
    /\ ticks = 0
    /\ copiedIn = <<>>
    /\ copiedOut = <<>>
    /\ published = 0
    /\ released = 0
    /\ panic = "none"
    /\ now = 0
    /\ ivars = [last_time |-> 0, update |-> "free"]
    /\ requests = <<>>
    /\ PREVIOUS_MODIFIER_FLAGS = {}
    /\ delivered = <<>>
    /\ lib = LibInit
    /\ steady = SteadyOff
    /\ demo = DemoInit
    /\ other = OtherInit
    /\ Memory = MemoryInit
    /\ inputs = <<>>

Init ==
    /\ AUDIO_SAMPLES = [i \in Slots |-> 0]
    /\ GAME_SAMPLES = [i \in Slots |-> 0]
    /\ AUDIO_SAMPLES_INDICES = Pack(2, 0)
    /\ p = PIdle
    /\ c = CIdle
    /\ data = <<>>
    /\ gen = 0
    /\ ticks = 0
    /\ copiedIn = <<>>
    /\ copiedOut = <<>>
    /\ published = 0
    /\ released = 0
    /\ panic = "none"
    /\ now = 0
    /\ ivars = [last_time |-> 0, update |-> "free"]
    /\ requests = <<>>
    /\ PREVIOUS_MODIFIER_FLAGS = {}
    /\ delivered = <<>>
    /\ lib = LibInit
    /\ steady = SteadyOff
    /\ demo = DemoInit
    /\ other = OtherInit
    /\ Memory = MemoryInit
    /\ inputs = <<>>

(* --------------------------- update (producer) ------------------------- *)

\* platform.rs 439-464: delta is the time since last_time, which is set to
\* now; load the packed index once, check alignment, compute
\* samples_to_write; borrow the update closure mutably (RefCell::borrow_mut
\* panics when it is already borrowed).
UpdateLoad ==
    /\ panic = "none"
    /\ p.pc = "idle"
    /\ ticks < MaxTicks
    /\ LET indices == AUDIO_SAMPLES_INDICES
           write_index == WriteHalf(indices)
           wrapped_read_index == ReadHalf(indices)
           n == SamplesToWrite(write_index, wrapped_read_index)
       IN  IF write_index % CHANNELS # 0
           THEN /\ panic' = "update: assert_eq!(write_index % CHANNELS, 0)"
                /\ p' = p
           ELSE IF wrapped_read_index % CHANNELS # 0
           THEN /\ panic' = "update: assert_eq!(wrapped_read_index % CHANNELS, 0)"
                /\ p' = p
           ELSE IF n < 0
           THEN /\ panic' = "update: samples_to_write underflow"
                /\ p' = p
           ELSE IF n > AUDIO_SAMPLES_LEN
           THEN /\ panic' = "update: GAME_SAMPLES[..samples_to_write] out of range"
                /\ p' = p
           ELSE IF ivars.update # "free"
           THEN /\ panic' = "update: already borrowed: BorrowMutError"
                /\ p' = p
           ELSE /\ panic' = panic
                /\ p' = [p EXCEPT !.pc = "user",
                                  !.write_index = write_index,
                                  !.wrapped_read_index = wrapped_read_index,
                                  !.samples_to_write = n,
                                  !.displayed = FALSE,
                                  !.delta = now - ivars.last_time]
    /\ ivars' = [last_time |-> now,
                 update |-> IF panic' = "none" THEN "borrowed" ELSE ivars.update]
    /\ UNCHANGED <<AUDIO_SAMPLES, GAME_SAMPLES, AUDIO_SAMPLES_INDICES, c, data,
                   gen, ticks, copiedIn, copiedOut, published, released>>
    /\ UNCHANGED <<now, requests>>
    /\ UNCHANGED restVars

\* PlatformRequest::Update(PlatformState { delta, .. })
UpdateRequest(delta) == [kind |-> "Update", delta |-> delta]

\* PlatformRequest::Input(input)
InputRequest(input) == [kind |-> "Input", input |-> input]

\* The tick with its publish moved in front of the copy loop.
UpdateUserPublishEarly ==
    /\ panic = "none"
    /\ p.pc = "user"
    /\ GAME_SAMPLES' = [i \in Slots |->
                          IF i < p.samples_to_write THEN gen + i + 1
                          ELSE GAME_SAMPLES[i]]
    /\ gen' = gen + p.samples_to_write
    /\ AUDIO_SAMPLES_INDICES' =
          Pack(NewWriteIndex(p.write_index, p.samples_to_write),
               ReadHalf(AUDIO_SAMPLES_INDICES))
    /\ p' = [p EXCEPT !.pc = IF p.samples_to_write = 0 THEN "fetch" ELSE "copy",
                      !.index = p.write_index,
                      !.copied = 0,
                      !.displayed = TRUE]
    /\ requests' = Append(requests, UpdateRequest(p.delta))
    /\ UNCHANGED <<AUDIO_SAMPLES, c, data, ticks, copiedIn, copiedOut,
                   published, released, panic>>
    /\ UNCHANGED <<now, ivars>>
    /\ UNCHANGED restVars

\* The tick leaving out setNeedsDisplay.
UpdateUserNoDisplay ==
    /\ panic = "none"
    /\ p.pc = "user"
    /\ GAME_SAMPLES' = [i \in Slots |->
                          IF i < p.samples_to_write THEN gen + i + 1
                          ELSE GAME_SAMPLES[i]]
    /\ gen' = gen + p.samples_to_write
    /\ p' = [p EXCEPT !.pc = IF p.samples_to_write = 0 THEN "fetch" ELSE "copy",
                      !.index = p.write_index,
                      !.copied = 0]
    /\ requests' = Append(requests, UpdateRequest(p.delta))
    /\ UNCHANGED <<AUDIO_SAMPLES, AUDIO_SAMPLES_INDICES, c, data, ticks,
                   copiedIn, copiedOut, published, released, panic>>
    /\ UNCHANGED <<now, ivars>>
    /\ UNCHANGED restVars

\* platform.rs 464-479: the user update fills GAME_SAMPLES[..samples_to_write]
\* (here: with the next generation tags), then setNeedsDisplay, then the copy
\* loop starts at write_index.
UpdateUser ==
    /\ panic = "none"
    /\ p.pc = "user"
    /\ GAME_SAMPLES' = [i \in Slots |->
                          IF i < p.samples_to_write THEN gen + i + 1
                          ELSE GAME_SAMPLES[i]]
    /\ gen' = gen + p.samples_to_write
    /\ p' = [p EXCEPT !.pc = IF p.samples_to_write = 0 THEN "fetch" ELSE "copy",
                      !.index = p.write_index,
                      !.copied = 0,
                      !.displayed = TRUE]
    /\ requests' = Append(requests, UpdateRequest(p.delta))
    /\ UNCHANGED <<AUDIO_SAMPLES, AUDIO_SAMPLES_INDICES, c, data, ticks,
                   copiedIn, copiedOut, published, released, panic>>
    /\ UNCHANGED <<now, ivars>>
    /\ UNCHANGED restVars

\* The copy loop ending one sample short of samples_to_write.
UpdateCopyStopsEarly ==
    /\ panic = "none"
    /\ p.pc = "copy"
    /\ IF p.index \notin Slots
       THEN /\ panic' = "update: AUDIO_SAMPLES[index] out of range"
            /\ UNCHANGED <<AUDIO_SAMPLES, p, copiedIn>>
       ELSE /\ panic' = panic
            /\ AUDIO_SAMPLES' = [AUDIO_SAMPLES EXCEPT
                                   ![p.index] = GAME_SAMPLES[p.copied]]
            /\ copiedIn' = Append(copiedIn, GAME_SAMPLES[p.copied])
            /\ p' = [p EXCEPT
                       !.index = (p.index + 1) % AUDIO_SAMPLES_LEN,
                       !.copied = p.copied + 1,
                       !.pc = IF p.copied + 2 >= p.samples_to_write
                              THEN "fetch" ELSE "copy"]
    /\ UNCHANGED <<GAME_SAMPLES, AUDIO_SAMPLES_INDICES, c, data, gen, ticks,
                   copiedOut, published, released>>
    /\ UNCHANGED <<now, ivars, requests>>
    /\ UNCHANGED restVars

\* The copy loop advancing its index without wrapping at the capacity.
UpdateCopyNoWrap ==
    /\ panic = "none"
    /\ p.pc = "copy"
    /\ IF p.index \notin Slots
       THEN /\ panic' = "update: AUDIO_SAMPLES[index] out of range"
            /\ UNCHANGED <<AUDIO_SAMPLES, p, copiedIn>>
       ELSE /\ panic' = panic
            /\ AUDIO_SAMPLES' = [AUDIO_SAMPLES EXCEPT
                                   ![p.index] = GAME_SAMPLES[p.copied]]
            /\ copiedIn' = Append(copiedIn, GAME_SAMPLES[p.copied])
            /\ p' = [p EXCEPT
                       !.index = p.index + 1,
                       !.copied = p.copied + 1,
                       !.pc = IF p.copied + 1 = p.samples_to_write
                              THEN "fetch" ELSE "copy"]
    /\ UNCHANGED <<GAME_SAMPLES, AUDIO_SAMPLES_INDICES, c, data, gen, ticks,
                   copiedOut, published, released>>
    /\ UNCHANGED <<now, ivars, requests>>
    /\ UNCHANGED restVars

\* platform.rs 480-483: one iteration of the copy loop.
UpdateCopy ==
    /\ panic = "none"
    /\ p.pc = "copy"
    /\ IF p.index \notin Slots
       THEN /\ panic' = "update: AUDIO_SAMPLES[index] out of range"
            /\ UNCHANGED <<AUDIO_SAMPLES, p, copiedIn>>
       ELSE /\ panic' = panic
            /\ AUDIO_SAMPLES' = [AUDIO_SAMPLES EXCEPT
                                   ![p.index] = GAME_SAMPLES[p.copied]]
            /\ copiedIn' = Append(copiedIn, GAME_SAMPLES[p.copied])
            /\ p' = [p EXCEPT
                       !.index = (p.index + 1) % AUDIO_SAMPLES_LEN,
                       !.copied = p.copied + 1,
                       !.pc = IF p.copied + 1 = p.samples_to_write
                              THEN "fetch" ELSE "copy"]
    /\ UNCHANGED <<GAME_SAMPLES, AUDIO_SAMPLES_INDICES, c, data, gen, ticks,
                   copiedOut, published, released>>
    /\ UNCHANGED <<now, ivars, requests>>
    /\ UNCHANGED restVars

\* platform.rs 486-487: fetch_update's initial load of the current value.
UpdateFetch ==
    /\ panic = "none"
    /\ p.pc = "fetch"
    /\ p' = [p EXCEPT !.pc = "cas", !.current_indices = AUDIO_SAMPLES_INDICES]
    /\ UNCHANGED <<AUDIO_SAMPLES, GAME_SAMPLES, AUDIO_SAMPLES_INDICES, c, data,
                   gen, ticks, copiedIn, copiedOut, published, released, panic>>
    /\ UNCHANGED <<now, ivars, requests>>
    /\ UNCHANGED restVars

\* platform.rs 487-493: the compare-and-swap succeeds; update returns, which
\* drops the RefMut of the update closure.
UpdateCasOk ==
    /\ panic = "none"
    /\ p.pc = "cas"
    /\ AUDIO_SAMPLES_INDICES = p.current_indices
    /\ AUDIO_SAMPLES_INDICES' =
          ProducerNewIndices(p.current_indices, p.write_index,
                             p.wrapped_read_index, p.samples_to_write)
    /\ published' = published + p.samples_to_write
    /\ ticks' = ticks + 1
    /\ p' = [p EXCEPT !.pc = "idle"]
    /\ ivars' = [ivars EXCEPT !.update = "free"]
    /\ UNCHANGED <<AUDIO_SAMPLES, GAME_SAMPLES, c, data, gen, copiedIn,
                   copiedOut, released, panic>>
    /\ UNCHANGED <<now, requests>>
    /\ UNCHANGED restVars

\* The retry running the closure again on the value of the first load, not
\* on the value the failed compare-and-swap returned.
UpdateCasRetryStale ==
    /\ panic = "none"
    /\ p.pc = "cas"
    /\ AUDIO_SAMPLES_INDICES # p.current_indices
    /\ UNCHANGED vars

\* The tick giving up its publish when the compare-and-swap fails.
UpdateCasRetryGivesUp ==
    /\ panic = "none"
    /\ p.pc = "cas"
    /\ AUDIO_SAMPLES_INDICES # p.current_indices
    /\ p' = [p EXCEPT !.pc = "idle"]
    /\ ticks' = ticks + 1
    /\ ivars' = [ivars EXCEPT !.update = "free"]
    /\ UNCHANGED <<AUDIO_SAMPLES, GAME_SAMPLES, AUDIO_SAMPLES_INDICES, c, data,
                   gen, copiedIn, copiedOut, published, released, panic>>
    /\ UNCHANGED <<now, requests>>
    /\ UNCHANGED restVars

\* platform.rs 487-492: the consumer published in between; the closure is
\* run again on the value the failed compare-and-swap returned.
\* (A spurious failure of compare_exchange_weak reloads the same value and
\* changes no state: it is a stuttering step.)
UpdateCasRetry ==
    /\ panic = "none"
    /\ p.pc = "cas"
    /\ AUDIO_SAMPLES_INDICES # p.current_indices
    /\ p' = [p EXCEPT !.current_indices = AUDIO_SAMPLES_INDICES]
    /\ UNCHANGED <<AUDIO_SAMPLES, GAME_SAMPLES, AUDIO_SAMPLES_INDICES, c, data,
                   gen, ticks, copiedIn, copiedOut, published, released, panic>>
    /\ UNCHANGED <<now, ivars, requests>>
    /\ UNCHANGED restVars

(* ---------------------- audio_callback (consumer) ---------------------- *)

\* The callback publishing the advanced read position right after its
\* load, before its copy loop.
CallbackLoadPublishEarly(frames) ==
    /\ panic = "none"
    /\ c.pc = "idle"
    /\ data' = [i \in 0 .. (frames * CHANNELS - 1) |-> Garbage]
    /\ LET indices == AUDIO_SAMPLES_INDICES
           wrapped_write_index == WriteHalf(indices)
           read_index == ReadHalf(indices)
           available_samples == AvailableSamples(wrapped_write_index, read_index)
           samples_needed == frames * CHANNELS
           samples_to_read == Min(available_samples, samples_needed)
           frames_to_read == samples_to_read \div CHANNELS
       IN  IF wrapped_write_index % CHANNELS # 0
           THEN /\ panic' = "audio_callback: assert_eq!(wrapped_write_index % CHANNELS, 0)"
                /\ c' = c
                /\ AUDIO_SAMPLES_INDICES' = AUDIO_SAMPLES_INDICES
           ELSE IF read_index % CHANNELS # 0
           THEN /\ panic' = "audio_callback: assert_eq!(read_index % CHANNELS, 0)"
                /\ c' = c
                /\ AUDIO_SAMPLES_INDICES' = AUDIO_SAMPLES_INDICES
           ELSE IF available_samples < 0
           THEN /\ panic' = "audio_callback: available_samples underflow"
                /\ c' = c
                /\ AUDIO_SAMPLES_INDICES' = AUDIO_SAMPLES_INDICES
           ELSE /\ panic' = panic
                /\ AUDIO_SAMPLES_INDICES' =
                      Pack(wrapped_write_index,
                           (read_index + samples_to_read) % AUDIO_SAMPLES_LEN)
                /\ c' = [pc |-> IF frames_to_read > 0 THEN "copy" ELSE "fill",
                         frames |-> frames,
                         wrapped_write_index |-> wrapped_write_index,
                         read_index |-> read_index,
                         available_samples |-> available_samples,
                         samples_needed |-> samples_needed,
                         samples_to_read |-> samples_to_read,
                         frames_to_read |-> frames_to_read,
                         index |-> read_index,
                         copied |-> 0,
                         current_indices |-> c.current_indices,
                         underruns |-> 0,
                         ret |-> -1,
                         calls |-> 1,
                         allocations |-> 0,
                         blocking_calls |-> 0]
    /\ UNCHANGED <<AUDIO_SAMPLES, GAME_SAMPLES, p, gen,
                   ticks, copiedIn, copiedOut, published, released>>
    /\ UNCHANGED <<now, ivars, requests>>
    /\ UNCHANGED restVars

\* platform.rs 510-536: the hardware hands over one buffer of
\* frames * CHANNELS samples; load the packed index once, check alignment,
\* compute how much to read.
CallbackLoad(frames) ==
    /\ panic = "none"
    /\ c.pc = "idle"
    /\ data' = [i \in 0 .. (frames * CHANNELS - 1) |-> Garbage]
    /\ LET indices == AUDIO_SAMPLES_INDICES
           wrapped_write_index == WriteHalf(indices)
           read_index == ReadHalf(indices)
           available_samples == AvailableSamples(wrapped_write_index, read_index)
           samples_needed == frames * CHANNELS
           samples_to_read == Min(available_samples, samples_needed)
           frames_to_read == samples_to_read \div CHANNELS
       IN  IF wrapped_write_index % CHANNELS # 0
           THEN /\ panic' = "audio_callback: assert_eq!(wrapped_write_index % CHANNELS, 0)"
                /\ c' = c
           ELSE IF read_index % CHANNELS # 0
           THEN /\ panic' = "audio_callback: assert_eq!(read_index % CHANNELS, 0)"
                /\ c' = c
           ELSE IF available_samples < 0
           THEN /\ panic' = "audio_callback: available_samples underflow"
                /\ c' = c
           ELSE /\ panic' = panic
                /\ c' = [pc |-> IF frames_to_read > 0 THEN "copy" ELSE "fill",
                         frames |-> frames,
                         wrapped_write_index |-> wrapped_write_index,
                         read_index |-> read_index,
                         available_samples |-> available_samples,
                         samples_needed |-> samples_needed,
                         samples_to_read |-> samples_to_read,
                         frames_to_read |-> frames_to_read,
                         index |-> read_index,
                         copied |-> 0,
                         current_indices |-> c.current_indices,
                         underruns |-> 0,
                         ret |-> -1,
                         calls |-> 1,
                         allocations |-> 0,
                         blocking_calls |-> 0]
    /\ UNCHANGED <<AUDIO_SAMPLES, GAME_SAMPLES, AUDIO_SAMPLES_INDICES, p, gen,
                   ticks, copiedIn, copiedOut, published, released>>
    /\ UNCHANGED <<now, ivars, requests>>
    /\ UNCHANGED restVars

\* platform.rs 538-542: one sample of the copy loop: frame[ch] =
\* AUDIO_SAMPLES[index + ch]; after the frame's last channel the index
\* advances by CHANNELS modulo the capacity.
CallbackCopy ==
    /\ panic = "none"
    /\ c.pc = "copy"
    /\ LET ch == c.copied % CHANNELS
           slot == FrameSlot(c.index, ch)
           last == (ch = CHANNELS - 1)
       IN  IF slot \notin Slots
           THEN /\ panic' = "audio_callback: AUDIO_SAMPLES[index] out of range"
                /\ UNCHANGED <<c, data, copiedOut>>
           ELSE /\ panic' = panic
                /\ data' = [data EXCEPT ![c.copied] = AUDIO_SAMPLES[slot]]
                /\ copiedOut' = Append(copiedOut, AUDIO_SAMPLES[slot])
                /\ c' = [c EXCEPT
                           !.copied = c.copied + 1,
                           !.index = IF last
                                     THEN (c.index + CHANNELS) % AUDIO_SAMPLES_LEN
                                     ELSE c.index,
                           !.pc = IF c.copied + 1 = c.frames_to_read * CHANNELS
                                  THEN "fill" ELSE "copy"]
    /\ UNCHANGED <<AUDIO_SAMPLES, GAME_SAMPLES, AUDIO_SAMPLES_INDICES, p, gen,
                   ticks, copiedIn, published, released>>
    /\ UNCHANGED <<now, ivars, requests>>
    /\ UNCHANGED restVars

\* platform.rs 544-551: on underrun, log once and zero the frames
\* frames_to_read .. frames of the destination.  crate::log! (debug.rs 6-9)
\* builds its message with alloc::format!, a heap allocation, and passes it
\* and then "\n" to log (debug.rs 13-16, platform.rs 74-76), whose
\* std::print! locks stdout and writes to it: two calls that may block.
CallbackFill ==
    /\ panic = "none"
    /\ c.pc = "fill"
    /\ IF c.frames_to_read < c.frames
       THEN /\ data' = ZeroFill(data, c.frames_to_read, c.frames)
            /\ c' = [c EXCEPT !.pc = "fetch",
                              !.underruns = c.underruns + 1,
                              !.allocations = c.allocations + LogAllocations,
                              !.blocking_calls = c.blocking_calls + LogPrints]
       ELSE /\ data' = data
            /\ c' = [c EXCEPT !.pc = "fetch"]
    /\ UNCHANGED <<AUDIO_SAMPLES, GAME_SAMPLES, AUDIO_SAMPLES_INDICES, p, gen,
                   ticks, copiedIn, copiedOut, published, released, panic>>
    /\ UNCHANGED <<now, ivars, requests>>
    /\ UNCHANGED restVars

\* The callback waiting, before it publishes, for the tick to give up the
\* update closure.
CallbackFetchAfterTick ==
    /\ panic = "none"
    /\ c.pc = "fetch"
    /\ ivars.update = "free"
    /\ c' = [c EXCEPT !.pc = "cas", !.current_indices = AUDIO_SAMPLES_INDICES]
    /\ UNCHANGED <<AUDIO_SAMPLES, GAME_SAMPLES, AUDIO_SAMPLES_INDICES, p, data,
                   gen, ticks, copiedIn, copiedOut, published, released, panic>>
    /\ UNCHANGED <<now, ivars, requests>>
    /\ UNCHANGED restVars

\* platform.rs 553-554: fetch_update's initial load of the current value.
CallbackFetch ==
    /\ panic = "none"
    /\ c.pc = "fetch"
    /\ c' = [c EXCEPT !.pc = "cas", !.current_indices = AUDIO_SAMPLES_INDICES]
    /\ UNCHANGED <<AUDIO_SAMPLES, GAME_SAMPLES, AUDIO_SAMPLES_INDICES, p, data,
                   gen, ticks, copiedIn, copiedOut, published, released, panic>>
    /\ UNCHANGED <<now, ivars, requests>>
    /\ UNCHANGED restVars

\* platform.rs 554-561: the compare-and-swap succeeds; the callback returns 0.
CallbackCasOk ==
    /\ panic = "none"
    /\ c.pc = "cas"
    /\ AUDIO_SAMPLES_INDICES = c.current_indices
    /\ AUDIO_SAMPLES_INDICES' =
          ConsumerNewIndices(c.current_indices, c.read_index, c.samples_to_read,
                             c.samples_needed)
    /\ released' = released + c.samples_to_read
    /\ c' = [c EXCEPT !.pc = "idle", !.ret = 0]
    /\ UNCHANGED <<AUDIO_SAMPLES, GAME_SAMPLES, p, data, gen, ticks, copiedIn,
                   copiedOut, published, panic>>
    /\ UNCHANGED <<now, ivars, requests>>
    /\ UNCHANGED restVars

\* platform.rs 554-559: the producer published in between; retry.
CallbackCasRetry ==
    /\ panic = "none"
    /\ c.pc = "cas"
    /\ AUDIO_SAMPLES_INDICES # c.current_indices
    /\ c' = [c EXCEPT !.current_indices = AUDIO_SAMPLES_INDICES]
    /\ UNCHANGED <<AUDIO_SAMPLES, GAME_SAMPLES, AUDIO_SAMPLES_INDICES, p, data,
                   gen, ticks, copiedIn, copiedOut, published, released, panic>>
    /\ UNCHANGED <<now, ivars, requests>>
    /\ UNCHANGED restVars

(* --------------------------- specification ----------------------------- *)

Next ==
    \/ UpdateLoad
    \/ UpdateUser
    \/ UpdateCopy
    \/ UpdateFetch
    \/ UpdateCasOk
    \/ UpdateCasRetry
    \/ \E frames \in 1 .. MaxFrames : CallbackLoad(frames)
    \/ CallbackCopy
    \/ CallbackFill
    \/ CallbackFetch
    \/ CallbackCasOk
    \/ CallbackCasRetry

Spec == Init /\ [][Next]_vars

(* ------------------------- derived quantities -------------------------- *)

\* The unread region [read_index, write_index) of a packed index value, as
\* the consumer measures it.
Unread(indices) ==
    { (ReadHalf(indices) + k) % AUDIO_SAMPLES_LEN :
        k \in 0 .. (AvailableSamples(WriteHalf(indices), ReadHalf(indices)) - 1) }

\* Ring slots the running tick has been granted by its snapshot and has not
\* stored yet.
PendingStores ==
    IF p.pc = "user"
    THEN { (p.write_index + k) % AUDIO_SAMPLES_LEN :
             k \in 0 .. (p.samples_to_write - 1) }
    ELSE IF p.pc = "copy"
    THEN { (p.write_index + k) % AUDIO_SAMPLES_LEN :
             k \in p.copied .. (p.samples_to_write - 1) }
    ELSE {}

\* The k-th sample (k = 1, 2, ...) that leaves the ring in FIFO order: the
\* initial packed index (2 << 32) | 0 publishes slots 0 and 1 of the zeroed
\* ring, after which the generations 1, 2, 3, ... follow.
ExpectedSample(k) == IF k <= 2 THEN 0 ELSE k - 2

\* Samples published and not yet released (the initial frame included).
InFlight == 2 + published - released

IsPrefix(s, t) ==
    /\ Len(s) <= Len(t)
    /\ \A k \in 1 .. Len(s) : s[k] = t[k]

\* The callback has finished its copy and fill (it is publishing or has
\* returned).
CallbackFilled == c.calls = 1 /\ c.pc \in {"fetch", "cas", "idle"}

CallbackReturned == c.calls = 1 /\ c.pc = "idle"

Underrun == c.available_samples < c.samples_needed

(* ------------------------------- C1 ------------------------------------ *)

\* C1 as stated: every sample the consumer copies out of the ring carries a
\* generation the producer wrote (tags start at 1, an unwritten slot holds
\* 0), and each carries the generation after the one copied before it.
C1_Original ==
    \A k \in 1 .. Len(copiedOut) :
        /\ copiedOut[k] >= 1
        /\ k > 1 => copiedOut[k] = copiedOut[k - 1] + 1

\* C1 amended: the first CHANNELS samples the consumer ever copies are the
\* ring's initial zeros in slots 0 and 1, which the initial packed index
\* (write 2, read 0) publishes without the producer having written them.
\* Every later sample is the generation the consumer expects next (1, 2, 3,
\* ... in order), and the slot the consumer is about to copy is never one the
\* producer still has to store (no stale, no torn read).
C1_NoStaleOrTornReads ==
    /\ \A k \in 1 .. Len(copiedOut) : copiedOut[k] = ExpectedSample(k)
    /\ c.pc = "copy" =>
          /\ FrameSlot(c.index, c.copied % CHANNELS) \notin PendingStores
          /\ AUDIO_SAMPLES[FrameSlot(c.index, c.copied % CHANNELS)]
                = ExpectedSample(Len(copiedOut) + 1)

\* The consumer is copying samples of a later lap of the ring while the
\* producer is in the middle of its own copy loop.
C1_Witness ==
    /\ c.pc = "copy"
    /\ p.pc = "copy"
    /\ Len(copiedOut) >= AUDIO_SAMPLES_LEN
    /\ copiedOut[Len(copiedOut)] > AUDIO_SAMPLES_LEN - 2

(* ------------------------------- C2 ------------------------------------ *)

\* C2: whenever the producer is about to store into ring slot p.index, that
\* slot lies outside the unread region [read_index, write_index) of the
\* packed index as it stands at that moment, and the tick stores no more
\* than the free space of its snapshot.
C2_NeverOverwritesUnread ==
    p.pc = "copy" =>
        /\ p.index \notin Unread(AUDIO_SAMPLES_INDICES)
        /\ p.copied < SamplesToWrite(p.write_index, p.wrapped_read_index)

\* The producer is storing into a wrapped slot while unread samples wait.
C2_Witness ==
    /\ p.pc = "copy"
    /\ p.index < p.write_index
    /\ Unread(AUDIO_SAMPLES_INDICES) # {}
    /\ released > 0

(* ------------------------------- C3 ------------------------------------ *)

ReservedSlotHolds(w, r) ==
    AvailableSamples(w, r) + SamplesToWrite(w, r) = AUDIO_SAMPLES_LEN - CHANNELS

\* C3: for every value the packed index takes, and for the snapshots both
\* sides computed from, available_to_read + available_to_write =
\* capacity - channel_count.
C3_ReservedSlotInvariant ==
    /\ ReservedSlotHolds(WriteHalf(AUDIO_SAMPLES_INDICES),
                         ReadHalf(AUDIO_SAMPLES_INDICES))
    /\ p.pc # "idle" =>
          /\ ReservedSlotHolds(p.write_index, p.wrapped_read_index)
          /\ AvailableSamples(p.write_index, p.wrapped_read_index)
                + p.samples_to_write = AUDIO_SAMPLES_LEN - CHANNELS
    /\ c.pc # "idle" =>
          /\ ReservedSlotHolds(c.wrapped_write_index, c.read_index)
          /\ c.available_samples
                + SamplesToWrite(c.wrapped_write_index, c.read_index)
                = AUDIO_SAMPLES_LEN - CHANNELS

\* The write position has wrapped behind the read position after ticks and
\* callbacks interleaved.
C3_Witness ==
    /\ WriteHalf(AUDIO_SAMPLES_INDICES) < ReadHalf(AUDIO_SAMPLES_INDICES)
    /\ p.pc = "cas"
    /\ c.pc = "cas"

(* ------------------------------- C4 ------------------------------------ *)

\* C4: both halves of the packed index are always multiples of CHANNELS in
\* [0, capacity), and no assertion of update or audio_callback fails.
C4_IndicesAlignedInRange ==
    /\ WriteHalf(AUDIO_SAMPLES_INDICES) % CHANNELS = 0
    /\ ReadHalf(AUDIO_SAMPLES_INDICES) % CHANNELS = 0
    /\ WriteHalf(AUDIO_SAMPLES_INDICES) \in Slots
    /\ ReadHalf(AUDIO_SAMPLES_INDICES) \in Slots
    /\ panic = "none"

\* Both sides have published and both halves have wrapped at least once.
C4_Witness ==
    /\ published >= AUDIO_SAMPLES_LEN
    /\ released >= AUDIO_SAMPLES_LEN
    /\ p.pc = "idle"
    /\ c.pc = "idle"

(* ------------------------------- C5 ------------------------------------ *)

\* C5: the samples in flight are exactly what the packed index measures, at
\* most capacity - channel_count; write_index = read_index only when nothing
\* is in flight; and a publish of at least one sample never makes
\* write_index equal to the current read_index.
C5_EmptyIsUnambiguous ==
    /\ InFlight = AvailableSamples(WriteHalf(AUDIO_SAMPLES_INDICES),
                                   ReadHalf(AUDIO_SAMPLES_INDICES))
    /\ InFlight <= AUDIO_SAMPLES_LEN - CHANNELS
    /\ WriteHalf(AUDIO_SAMPLES_INDICES) = ReadHalf(AUDIO_SAMPLES_INDICES)
          => InFlight = 0
    /\ (p.pc = "cas" /\ p.samples_to_write > 0) =>
          ProducerNewIndices(AUDIO_SAMPLES_INDICES, p.write_index,
                             p.wrapped_read_index, p.samples_to_write).write
            # ReadHalf(AUDIO_SAMPLES_INDICES)

\* The producer is about to publish a tick that filled the ring to
\* capacity - channel_count.
C5_Witness ==
    /\ p.pc = "cas"
    /\ p.current_indices = AUDIO_SAMPLES_INDICES
    /\ p.samples_to_write > 0
    /\ InFlight + p.samples_to_write = AUDIO_SAMPLES_LEN - CHANNELS
    /\ released > 0

(* ------------------------------- C6 ------------------------------------ *)

ProducerPublishes == p.pc = "cas" /\ p'.pc = "idle"

ConsumerPublishes == c.pc = "cas" /\ c'.pc = "idle"

\* C6: a producer publish leaves the read half as it was at the instant of
\* the compare-and-swap, a consumer publish leaves the write half as it
\* was, and no publish is lost: the packed index always holds the position
\* after every sample published and the position after every sample
\* released.
C6_HalvesOwnedNoLostUpdate ==
    /\ [](/\ WriteHalf(AUDIO_SAMPLES_INDICES)
               = (2 + published) % AUDIO_SAMPLES_LEN
          /\ ReadHalf(AUDIO_SAMPLES_INDICES) = released % AUDIO_SAMPLES_LEN)
    /\ [][/\ ProducerPublishes =>
               ReadHalf(AUDIO_SAMPLES_INDICES') = ReadHalf(AUDIO_SAMPLES_INDICES)
          /\ ConsumerPublishes =>
               WriteHalf(AUDIO_SAMPLES_INDICES') = WriteHalf(AUDIO_SAMPLES_INDICES)
         ]_vars

\* A tick has published although the consumer published between the tick's
\* index load and its compare-and-swap; the index holds both advances.
C6_Witness ==
    /\ p.pc = "idle"
    /\ ticks >= 1
    /\ p.samples_to_write > 0
    /\ ReadHalf(p.current_indices) # p.wrapped_read_index
    /\ WriteHalf(AUDIO_SAMPLES_INDICES)
          = NewWriteIndex(p.write_index, p.samples_to_write)
    /\ ReadHalf(AUDIO_SAMPLES_INDICES) = ReadHalf(p.current_indices)

(* ------------------------------- C7 ------------------------------------ *)

\* C7: every slot the published write position covers has been stored: no
\* slot of the unread region is still pending in the producer's copy loop,
\* each holds the sample that leaves the ring at its place in FIFO order, and
\* the producer reaches its publish only with the whole copy done.
C7_StoredBeforePublished ==
    /\ Unread(AUDIO_SAMPLES_INDICES) \cap PendingStores = {}
    /\ \A k \in 0 .. (AvailableSamples(WriteHalf(AUDIO_SAMPLES_INDICES),
                                       ReadHalf(AUDIO_SAMPLES_INDICES)) - 1) :
          AUDIO_SAMPLES[(ReadHalf(AUDIO_SAMPLES_INDICES) + k) % AUDIO_SAMPLES_LEN]
             = ExpectedSample(released + k + 1)
    /\ p.pc \in {"fetch", "cas"} =>
          (p.samples_to_write > 0 => p.copied = p.samples_to_write)

\* The consumer holds a snapshot whose write position a tick of the producer
\* advanced, and the producer is already storing the next tick's samples.
C7_Witness ==
    /\ c.pc = "copy"
    /\ c.wrapped_write_index # 2
    /\ p.pc = "copy"
    /\ ticks >= 1
    /\ p.copied > 0

(* ------------------------------- C8 ------------------------------------ *)

\* C8 as stated: the samples copied out of the ring are a prefix of the
\* samples the producer copied in.
C8_Original == IsPrefix(copiedOut, copiedIn)

\* C8 amended: the samples copied out of the ring are a prefix of the
\* initial frame of zeros (slots 0 and 1, published by the initial packed
\* index) followed by the samples the producer copied in: after that frame
\* nothing is skipped, duplicated or reordered, across wrap-around too.
C8_Fifo == IsPrefix(copiedOut, <<0, 0>> \o copiedIn)

\* More than one lap of the ring has been copied out.
C8_Witness ==
    /\ Len(copiedOut) > AUDIO_SAMPLES_LEN + CHANNELS
    /\ c.pc = "idle"

(* ------------------------------- C9 ------------------------------------ *)

\* C9: after the copy and fill of a callback that found M < N samples, the
\* first M destination slots hold the M ring samples in order, the N - M
\* trailing slots are zero, and one underrun was logged.
C9_UnderrunRoundTrip ==
    (CallbackFilled /\ Underrun) =>
        /\ DOMAIN data = 0 .. (c.samples_needed - 1)
        /\ \A i \in 0 .. (c.available_samples - 1) :
              /\ data[i] = copiedOut[Len(copiedOut) - c.available_samples + i + 1]
              /\ c.pc # "idle" =>
                    data[i] = AUDIO_SAMPLES[(c.read_index + i) % AUDIO_SAMPLES_LEN]
        /\ \A i \in c.available_samples .. (c.samples_needed - 1) : data[i] = 0
        /\ c.underruns = 1

\* A callback read some generations and zero-filled the rest.
C9_Witness ==
    /\ CallbackReturned
    /\ Underrun
    /\ c.available_samples > 0
    /\ data[0] > 0
    /\ data[c.samples_needed - 1] = 0

(* ------------------------------- C10 ----------------------------------- *)

\* C10: a callback that has returned returned 0, underrun or not, and after
\* an underrun the read index stands at the snapshot's write index, M
\* samples past the snapshot's read index.
C10_UnderrunIsNotFailure ==
    /\ panic = "none"
    /\ CallbackReturned =>
          /\ c.ret = 0
          /\ Underrun =>
                /\ ReadHalf(AUDIO_SAMPLES_INDICES) = c.wrapped_write_index
                /\ ReadHalf(AUDIO_SAMPLES_INDICES)
                      = (c.read_index + c.available_samples) % AUDIO_SAMPLES_LEN
                /\ c.samples_to_read = c.available_samples

\* An underrun callback returned after the producer had advanced the write
\* index past the callback's snapshot.
C10_Witness ==
    /\ CallbackReturned
    /\ Underrun
    /\ c.ret = 0
    /\ c.available_samples > 0
    /\ WriteHalf(AUDIO_SAMPLES_INDICES) # c.wrapped_write_index

(* ------------------------------- C11 ----------------------------------- *)

\* C11: the render callback never allocates and never makes a call that may
\* block, on any path, the underrun path included.
C11_NeverBlocksOrAllocates ==
    /\ c.allocations = 0
    /\ c.blocking_calls = 0

(* ------------------------------- C12 ----------------------------------- *)

\* A step of audio_callback.
CallbackStep ==
    \/ \E frames \in 1 .. MaxFrames : CallbackLoad(frames)
    \/ CallbackCopy
    \/ CallbackFill
    \/ CallbackFetch
    \/ CallbackCasOk
    \/ CallbackCasRetry

\* update has borrowed the update closure and not yet returned.
TickHoldsGuard == ivars.update = "borrowed"

\* C12: while a tick holds the update closure the callback is never made to
\* wait: whatever the tick is doing, the callback's next step can be taken.
\* No step of the callback reads or changes the borrow.  The callback copies
\* at most the samples its snapshot found published, and every sample it
\* copies was stored by the producer, or is the initial zero frame, before
\* that; with nothing published it hands out zeros only.
C12_DrainDuringTick ==
    /\ [](/\ panic = "none"
          /\ TickHoldsGuard => ENABLED CallbackStep
          /\ c.copied <= c.available_samples
          /\ c.samples_to_read <= c.available_samples
          /\ \A k \in 0 .. (c.copied - 1) : data[k] # Garbage
          /\ (CallbackFilled /\ c.available_samples = 0) =>
                \A k \in 0 .. (c.samples_needed - 1) : data[k] = 0)
    /\ [][CallbackStep => ivars' = ivars]_vars

\* A callback that took its snapshot, copied samples and returned, all while
\* one tick sat in its user update holding the closure: the tick has not
\* published, the callback has.
C12_Witness ==
    /\ TickHoldsGuard
    /\ p.pc = "user"
    /\ ticks >= 1
    /\ CallbackReturned
    /\ c.samples_to_read > 0
    /\ c.wrapped_write_index = p.write_index
    /\ ReadHalf(AUDIO_SAMPLES_INDICES) # p.wrapped_read_index

(* ------------------------------- C13 ----------------------------------- *)

\* The alternating run: whole ticks and whole callbacks of steady.frames
\* frames take turns, either of them first.  The schedule only decides whose
\* step may be taken; the steps are those of update and audio_callback.
\* steady.observed collects samples_to_write, the space update found
\* available, as each tick computes it.
SteadyInit ==
    /\ AUDIO_SAMPLES = [i \in Slots |-> 0]
    /\ GAME_SAMPLES = [i \in Slots |-> 0]
    /\ AUDIO_SAMPLES_INDICES = Pack(2, 0)
    /\ p = PIdle
    /\ c = CIdle
    /\ data = <<>>
    /\ gen = 0
    /\ ticks = 0
    /\ copiedIn = <<>>
    /\ copiedOut = <<>>
    /\ published = 0
    /\ released = 0
    /\ panic = "none"
    /\ now = 0
    /\ ivars = [last_time |-> 0, update |-> "free"]
    /\ requests = <<>>
    /\ PREVIOUS_MODIFIER_FLAGS = {}
    /\ delivered = <<>>
    /\ lib = LibInit
    /\ demo = DemoInit
    /\ other = OtherInit
    /\ Memory = MemoryInit
    /\ inputs = <<>>
    /\ \E first \in {"tick", "drain"}, frames \in 1 .. MaxFrames :
          steady = [phase |-> first, frames |-> frames, observed |-> <<>>,
                    first |-> first]

\* The schedule notes that the tick has started and what it found available.
SteadyTickStarted ==
    /\ steady.phase = "tick"
    /\ p.pc = "user"
    /\ steady' = [steady EXCEPT !.phase = "ticking",
                                !.observed = Append(@, p.samples_to_write)]
    /\ UNCHANGED <<AUDIO_SAMPLES, GAME_SAMPLES, AUDIO_SAMPLES_INDICES, p, c,
                   data, gen, ticks, copiedIn, copiedOut, published, released,
                   panic, now, ivars, requests, PREVIOUS_MODIFIER_FLAGS,
                   delivered, lib>>
    /\ UNCHANGED <<demo, other, Memory, inputs>>

\* The tick has returned: the callback's turn.
SteadyTickDone ==
    /\ steady.phase = "ticking"
    /\ p.pc = "idle"
    /\ steady' = [steady EXCEPT !.phase = "drain"]
    /\ UNCHANGED <<AUDIO_SAMPLES, GAME_SAMPLES, AUDIO_SAMPLES_INDICES, p, c,
                   data, gen, ticks, copiedIn, copiedOut, published, released,
                   panic, now, ivars, requests, PREVIOUS_MODIFIER_FLAGS,
                   delivered, lib>>
    /\ UNCHANGED <<demo, other, Memory, inputs>>

\* The schedule notes that the callback has started.
SteadyDrainStarted ==
    /\ steady.phase = "drain"
    /\ c.pc # "idle"
    /\ steady' = [steady EXCEPT !.phase = "draining"]
    /\ UNCHANGED <<AUDIO_SAMPLES, GAME_SAMPLES, AUDIO_SAMPLES_INDICES, p, c,
                   data, gen, ticks, copiedIn, copiedOut, published, released,
                   panic, now, ivars, requests, PREVIOUS_MODIFIER_FLAGS,
                   delivered, lib>>
    /\ UNCHANGED <<demo, other, Memory, inputs>>

\* The callback has returned: the tick's turn.
SteadyDrainDone ==
    /\ steady.phase = "draining"
    /\ c.pc = "idle"
    /\ steady' = [steady EXCEPT !.phase = "tick"]
    /\ UNCHANGED <<AUDIO_SAMPLES, GAME_SAMPLES, AUDIO_SAMPLES_INDICES, p, c,
                   data, gen, ticks, copiedIn, copiedOut, published, released,
                   panic, now, ivars, requests, PREVIOUS_MODIFIER_FLAGS,
                   delivered, lib>>
    /\ UNCHANGED <<demo, other, Memory, inputs>>

SteadyNext ==
    \/ steady.phase = "tick" /\ UpdateLoad
    \/ SteadyTickStarted
    \/ steady.phase = "ticking" /\ UpdateUser
    \/ steady.phase = "ticking" /\ UpdateCopy
    \/ steady.phase = "ticking" /\ UpdateFetch
    \/ steady.phase = "ticking" /\ UpdateCasOk
    \/ SteadyTickDone
    \/ steady.phase = "drain" /\ c.pc = "idle" /\ CallbackLoad(steady.frames)
    \/ SteadyDrainStarted
    \/ steady.phase = "draining" /\ CallbackCopy
    \/ steady.phase = "draining" /\ CallbackFill
    \/ steady.phase = "draining" /\ CallbackFetch
    \/ steady.phase = "draining" /\ CallbackCasOk
    \/ SteadyDrainDone

SpecSteady == SteadyInit /\ [][SteadyNext]_vars

\* N, the fixed amount each callback asks for.
SteadyN == steady.frames * CHANNELS

\* C13 as stated: the space observed at the start of a tick never grows from
\* one tick to a later one.
C13_Original ==
    \A i, j \in 1 .. Len(steady.observed) :
        i < j => steady.observed[j] <= steady.observed[i]

\* C13: the first tick observes the ring less the reserved frame and less
\* what is in flight at that moment, the initial frame unless a callback has
\* already taken it; every later tick observes exactly N, the amount drained
\* since the tick before, so from the second tick on the value is stable and
\* no slot is lost per cycle.
C13_SteadyState ==
    /\ panic = "none"
    /\ \A i \in 1 .. Len(steady.observed) :
          steady.observed[i] =
             IF i > 1 THEN SteadyN
             ELSE IF steady.first = "tick"
                  THEN AUDIO_SAMPLES_LEN - 2 * CHANNELS
                  ELSE AUDIO_SAMPLES_LEN - CHANNELS

\* Three ticks were observed, the tick went first, and the second tick found
\* more space than the first.
C13_Witness ==
    /\ Len(steady.observed) >= 3
    /\ steady.first = "tick"
    /\ steady.observed[2] > steady.observed[1]
    /\ steady.observed[3] = steady.observed[2]

(* ------------------------- input handlers ------------------------------ *)

\* How many modifier reports a run delivers.
MaxReports == 4

\* The NSEventModifierFlags that flags_changed tests; a mask is a set of them.
ModifierFlags == {"Shift", "Control", "Option", "Command"}

\* platform.rs 564-584: the KeyModifiers constant of one NSEventModifierFlags
\* flag; every flag without a constant of its own gives CLEAR.
KeyModifierOf(modifier) ==
    CASE modifier = "CapsLock" -> "CAPSLOCK"
      [] modifier = "Shift" -> "SHIFT"
      [] modifier = "Control" -> "CONTROL"
      [] modifier = "Option" -> "OPTION"
      [] modifier = "Command" -> "COMMAND"
      [] modifier = "NumericPad" -> "NUMERIC_PAD"
      [] modifier = "Help" -> "HELP"
      [] modifier = "Function" -> "FUNCTION"
      [] OTHER -> "CLEAR"

\* platform.rs 564-584: KeyModifiers::from, the or of the constants of the
\* flags in value; CLEAR has no bit.
KeyModifiersFrom(value) == {KeyModifierOf(modifier) : modifier \in value} \ {"CLEAR"}

\* Input::Key { code, modifiers, pressed, repeat }
Key(code, modifiers, pressed, repeat) ==
    [type |-> "Key", code |-> code, modifiers |-> modifiers,
     pressed |-> pressed, repeat |-> repeat]

\* The difference taken against an empty previous mask.
ChangedFromZero(current_flags, previous_flags) == current_flags

\* platform.rs 248-249: current_flags.bits() ^ PREVIOUS_MODIFIER_FLAGS.bits()
Changed(current_flags, previous_flags) ==
    (current_flags \ previous_flags) \cup (previous_flags \ current_flags)

\* platform.rs 251: let pressed = (current_flags.bits() & changed) != 0,
\* computed once from all the changed bits and used for every event.
Pressed(current_flags, changed) == (current_flags \cap changed) # {}

\* platform.rs 254-287: the key of a tested flag; Command has none (TODO).
FlagKeys ==
    << <<"Shift", "LeftShift">>, <<"Control", "LeftControl">>,
       <<"Option", "LeftAlt">> >>

\* platform.rs 254-287: the requests flags_changed makes, in source order.
RECURSIVE FlagRequests(_, _, _)
FlagRequests(current_flags, changed, i) ==
    IF i > Len(FlagKeys) THEN <<>>
    ELSE (IF FlagKeys[i][1] \in changed
          THEN <<InputRequest(Key(FlagKeys[i][2],
                                  KeyModifiersFrom(current_flags),
                                  Pressed(current_flags, changed),
                                  FALSE))>>
          ELSE <<>>)
         \o FlagRequests(current_flags, changed, i + 1)

\* platform.rs 243-289: flags_changed, delivered between two handlers or
\* while the user update of a tick is running.  PREVIOUS_MODIFIER_FLAGS is
\* stored before the closure is borrowed; borrow_mut panics when update
\* holds the closure.
FlagsChanged(current_flags) ==
    /\ panic = "none"
    /\ p.pc \in {"idle", "user"}
    /\ delivered' = Append(delivered, [type |-> "flagsChanged",
                                       modifierFlags |-> current_flags])
    /\ PREVIOUS_MODIFIER_FLAGS' = current_flags
    /\ IF ivars.update # "free"
       THEN /\ panic' = "flags_changed: already borrowed: BorrowMutError"
            /\ requests' = requests
       ELSE /\ panic' = panic
            /\ requests' = requests \o
                  FlagRequests(current_flags,
                               Changed(current_flags, PREVIOUS_MODIFIER_FLAGS), 1)
    /\ UNCHANGED <<AUDIO_SAMPLES, GAME_SAMPLES, AUDIO_SAMPLES_INDICES, p, c,
                   data, gen, ticks, copiedIn, copiedOut, published, released,
                   now, ivars, lib, steady>>
    /\ UNCHANGED <<demo, other, Memory, inputs>>

\* Modifier reports only.
FlagsNext ==
    \E current_flags \in SUBSET ModifierFlags :
        Len(delivered) < MaxReports /\ FlagsChanged(current_flags)

SpecFlags == Init /\ [][FlagsNext]_vars

(* ------------------------------- C14 ----------------------------------- *)

\* The masks reported so far.
ReportedFlags == [i \in 1 .. Len(delivered) |-> delivered[i].modifierFlags]

\* press or release of a modifier key, as the closure receives it.
KeyEdge(code, modifiers, pressed) == InputRequest(Key(code, modifiers, pressed, FALSE))

\* The reports SHIFT, SHIFT|CONTROL, CONTROL, 0.
C14_Reports == << {"Shift"}, {"Shift", "Control"}, {"Control"}, {} >>

\* The events they must give: press(SHIFT), press(CONTROL), release(SHIFT),
\* release(CONTROL).
C14_Events ==
    << KeyEdge("LeftShift", {"SHIFT"}, TRUE),
       KeyEdge("LeftControl", {"SHIFT", "CONTROL"}, TRUE),
       KeyEdge("LeftShift", {"CONTROL"}, FALSE),
       KeyEdge("LeftControl", {}, FALSE) >>

\* C14: from previous mask 0, after the first k of the reports SHIFT,
\* SHIFT|CONTROL, CONTROL, 0 the closure has received exactly the first k of
\* press(SHIFT), press(CONTROL), release(SHIFT), release(CONTROL), in order.
C14_ModifierEdges ==
    \A k \in 0 .. Len(C14_Reports) :
        ReportedFlags = SubSeq(C14_Reports, 1, k) =>
            /\ panic = "none"
            /\ requests = SubSeq(C14_Events, 1, k)

\* All four reports were delivered and four events came out.
C14_Witness ==
    /\ ReportedFlags = C14_Reports
    /\ Len(requests) = 4
    /\ PREVIOUS_MODIFIER_FLAGS = {}

(* ------------------------------- C15 ----------------------------------- *)

\* The mask held before report i.
PreviousOfReport(i) == IF i = 1 THEN {} ELSE ReportedFlags[i - 1]

\* One event for each tested flag in changed, pressed exactly when the flag
\* is set in current_flags.
RECURSIVE EdgePerChangedBit(_, _, _)
EdgePerChangedBit(current_flags, changed, i) ==
    IF i > Len(FlagKeys) THEN <<>>
    ELSE (IF FlagKeys[i][1] \in changed
          THEN <<KeyEdge(FlagKeys[i][2], KeyModifiersFrom(current_flags),
                         FlagKeys[i][1] \in current_flags)>>
          ELSE <<>>)
         \o EdgePerChangedBit(current_flags, changed, i + 1)

\* The events of the reports i .. Len(delivered) taken together.
RECURSIVE EdgesFrom(_)
EdgesFrom(i) ==
    IF i > Len(delivered) THEN <<>>
    ELSE EdgePerChangedBit(ReportedFlags[i],
                           Changed(ReportedFlags[i], PreviousOfReport(i)), 1)
         \o EdgesFrom(i + 1)

\* C15: whatever the previous and the current mask, each report gives, for
\* each changed bit that has a key, one event whose pressed flag is that
\* bit's state in the current mask, nothing for the other bits, and leaves
\* the current mask as the previous one.
C15_EdgePerChangedBit ==
    /\ panic = "none"
    /\ PREVIOUS_MODIFIER_FLAGS = PreviousOfReport(Len(delivered) + 1)
    /\ requests = EdgesFrom(1)

(* ----------------------------- key events ------------------------------ *)

\* The largest raw key code delivered, apart from the largest u16.
MaxKeyCode == 129

\* How many key events a run delivers.
MaxKeyEvents == 1

\* platform.rs 587: the length of KEY_CODE_LUT.
KEY_CODE_LUT_LEN == 128

\* platform.rs 589-653: the entries of KEY_CODE_LUT that are set.
KeyCodeEntries ==
    0 :> "KeyA" @@ 1 :> "KeyS" @@ 2 :> "KeyD" @@ 3 :> "KeyF" @@
    4 :> "KeyH" @@ 5 :> "KeyG" @@ 6 :> "KeyZ" @@ 7 :> "KeyX" @@
    8 :> "KeyC" @@ 9 :> "KeyV" @@ 10 :> "NonUSBackslash" @@ 11 :> "KeyB" @@
    12 :> "KeyQ" @@ 13 :> "KeyW" @@ 14 :> "KeyE" @@ 15 :> "KeyR" @@
    16 :> "KeyY" @@ 17 :> "KeyT" @@ 18 :> "Num1" @@ 19 :> "Num2" @@
    20 :> "Num3" @@ 21 :> "Num4" @@ 22 :> "Num6" @@ 23 :> "Num5" @@
    24 :> "EqualSign" @@ 25 :> "Num9" @@ 26 :> "Num7" @@ 27 :> "Hyphen" @@
    28 :> "Num8" @@ 29 :> "Num0" @@ 30 :> "CloseBracket" @@ 31 :> "KeyO" @@
    32 :> "KeyU" @@ 33 :> "OpenBracket" @@ 34 :> "KeyI" @@ 35 :> "KeyP" @@
    36 :> "Return" @@ 37 :> "KeyL" @@ 38 :> "KeyJ" @@ 39 :> "Quote" @@
    40 :> "KeyK" @@ 41 :> "Semicolon" @@ 42 :> "Backslash" @@
    43 :> "Comma" @@ 44 :> "Slash" @@ 45 :> "KeyN" @@ 46 :> "KeyM" @@
    47 :> "Period" @@ 48 :> "Tab" @@ 49 :> "Spacebar" @@
    50 :> "NonUSPound" @@ 51 :> "DeleteOrBackspace" @@ 52 :> "Return" @@
    53 :> "Escape" @@ 95 :> "Separator" @@ 114 :> "Insert" @@
    115 :> "Home" @@ 116 :> "PageUp" @@ 117 :> "DeleteForward" @@
    119 :> "End" @@ 121 :> "PageDown" @@ 123 :> "LeftArrow" @@
    124 :> "RightArrow" @@ 125 :> "DownArrow" @@ 126 :> "UpArrow"

\* platform.rs 587-655: KEY_CODE_LUT, KeyCode::Unknown where no entry is set.
KEY_CODE_LUT ==
    [k \in 0 .. (KEY_CODE_LUT_LEN - 1) |->
        IF k \in DOMAIN KeyCodeEntries THEN KeyCodeEntries[k] ELSE "Unknown"]

\* event.keyCode(), a u16: the table's range, the codes just past it and the
\* largest value.
RawKeyCodes == (0 .. MaxKeyCode) \cup {65535}

\* The key handlers keeping the event back instead of calling the closure.
KeyEventBuffered(type, pressed, keyCode, modifierFlags, isARepeat) ==
    /\ panic = "none"
    /\ p.pc \in {"idle", "user"}
    /\ delivered' = Append(delivered, [type |-> type, keyCode |-> keyCode,
                                       modifierFlags |-> modifierFlags,
                                       isARepeat |-> isARepeat])
    /\ IF ivars.update # "free"
       THEN /\ panic' = "key event: already borrowed: BorrowMutError"
            /\ requests' = requests
       ELSE IF keyCode \notin DOMAIN KEY_CODE_LUT
       THEN /\ panic' = "KEY_CODE_LUT: index out of bounds"
            /\ requests' = requests
       ELSE /\ panic' = panic
            /\ requests' = requests
    /\ UNCHANGED <<AUDIO_SAMPLES, GAME_SAMPLES, AUDIO_SAMPLES_INDICES, p, c,
                   data, gen, ticks, copiedIn, copiedOut, published, released,
                   now, ivars, PREVIOUS_MODIFIER_FLAGS, lib, steady>>
    /\ UNCHANGED <<demo, other, Memory, inputs>>

\* platform.rs 206-230: key_down (pressed) and key_up (not pressed).
\* borrow_mut panics when update holds the closure; indexing KEY_CODE_LUT
\* with a key code outside 0 .. 127 panics (index out of bounds).
KeyEvent(type, pressed, keyCode, modifierFlags, isARepeat) ==
    /\ panic = "none"
    /\ p.pc \in {"idle", "user"}
    /\ delivered' = Append(delivered, [type |-> type, keyCode |-> keyCode,
                                       modifierFlags |-> modifierFlags,
                                       isARepeat |-> isARepeat])
    /\ IF ivars.update # "free"
       THEN /\ panic' = "key event: already borrowed: BorrowMutError"
            /\ requests' = requests
       ELSE IF keyCode \notin DOMAIN KEY_CODE_LUT
       THEN /\ panic' = "KEY_CODE_LUT: index out of bounds"
            /\ requests' = requests
       ELSE /\ panic' = panic
            /\ requests' = Append(requests,
                  InputRequest(Key(KEY_CODE_LUT[keyCode],
                                   KeyModifiersFrom(modifierFlags),
                                   pressed, isARepeat)))
    /\ UNCHANGED <<AUDIO_SAMPLES, GAME_SAMPLES, AUDIO_SAMPLES_INDICES, p, c,
                   data, gen, ticks, copiedIn, copiedOut, published, released,
                   now, ivars, PREVIOUS_MODIFIER_FLAGS, lib, steady>>
    /\ UNCHANGED <<demo, other, Memory, inputs>>

\* platform.rs 206-217
KeyDown(keyCode, modifierFlags, isARepeat) ==
    KeyEvent("keyDown", TRUE, keyCode, modifierFlags, isARepeat)

\* platform.rs 219-230
KeyUp(keyCode, modifierFlags, isARepeat) ==
    KeyEvent("keyUp", FALSE, keyCode, modifierFlags, isARepeat)

\* Key events only.
KeysNext ==
    \E keyCode \in RawKeyCodes, modifierFlags \in {{}, {"Shift"}},
       isARepeat \in BOOLEAN :
        \/ Len(delivered) < MaxKeyEvents
              /\ KeyDown(keyCode, modifierFlags, isARepeat)
        \/ Len(delivered) < MaxKeyEvents
              /\ KeyUp(keyCode, modifierFlags, isARepeat)

SpecKeys == Init /\ [][KeysNext]_vars

(* ------------------------------- C16 ----------------------------------- *)

\* C16: every key event delivered, whatever its 16-bit key code, has reached
\* the closure with a KeyCode, which is Unknown for a code at or past the
\* table's length; translation has not failed.
C16_TranslationNeverFails ==
    /\ panic = "none"
    /\ Len(requests) = Len(delivered)
    /\ \A i \in 1 .. Len(delivered) :
          requests[i].input.code =
             IF delivered[i].keyCode < KEY_CODE_LUT_LEN
             THEN KEY_CODE_LUT[delivered[i].keyCode]
             ELSE "Unknown"

(* ------------------------ the main thread ------------------------------ *)

\* The last reading of the clock.
MaxTime == 2

\* How many input events a run of the main thread delivers.
MaxDeliveries == 2

\* Instant::now() is monotonic: time passes between any two steps.
Advance ==
    /\ panic = "none"
    /\ now < MaxTime
    /\ now' = now + 1
    /\ UNCHANGED <<AUDIO_SAMPLES, GAME_SAMPLES, AUDIO_SAMPLES_INDICES, p, c,
                   data, gen, ticks, copiedIn, copiedOut, published, released,
                   panic, ivars, requests>>
    /\ UNCHANGED restVars

\* platform.rs 438-464: update called again (update: delivered by a nested
\* run loop) while the user update of a tick is running.  It stores
\* last_time, passes the index assertions and reaches
\* ivars.update.borrow_mut() with the closure borrowed: the call panics.
NestedUpdate ==
    /\ panic = "none"
    /\ p.pc = "user"
    /\ ivars.update # "free"
    /\ ivars' = [ivars EXCEPT !.last_time = now]
    /\ panic' = "update: already borrowed: BorrowMutError"
    /\ UNCHANGED <<AUDIO_SAMPLES, GAME_SAMPLES, AUDIO_SAMPLES_INDICES, p, c,
                   data, gen, ticks, copiedIn, copiedOut, published, released,
                   now, requests>>
    /\ UNCHANGED restVars

\* platform.rs 232-241: mouse_moved.  borrow_mut panics when update holds
\* the closure.
MouseMoved(deltaX, deltaY) ==
    /\ panic = "none"
    /\ p.pc \in {"idle", "user"}
    /\ delivered' = Append(delivered, [type |-> "mouseMoved",
                                       deltaX |-> deltaX, deltaY |-> deltaY])
    /\ IF ivars.update # "free"
       THEN /\ panic' = "mouse_moved: already borrowed: BorrowMutError"
            /\ requests' = requests
       ELSE /\ panic' = panic
            /\ requests' = Append(requests,
                  InputRequest([type |-> "MouseMoved", dx |-> deltaX,
                                dy |-> deltaY]))
    /\ UNCHANGED <<AUDIO_SAMPLES, GAME_SAMPLES, AUDIO_SAMPLES_INDICES, p, c,
                   data, gen, ticks, copiedIn, copiedOut, published, released,
                   now, ivars, PREVIOUS_MODIFIER_FLAGS, lib, steady>>
    /\ UNCHANGED <<demo, other, Memory, inputs>>

\* platform.rs 165-194: draw_rect takes the raw pointer ivars.fb and hands the
\* pixels to NSBitmapImageRep and drawInRect, whether or not the user update
\* of a tick is running with the same pointer as its frame_buffer.
DrawRect ==
    /\ panic = "none"
    /\ p.pc \in {"idle", "user"}
    /\ delivered' = Append(delivered, [type |-> "drawRect", fb_read |-> TRUE,
                                       update_running |-> TickHoldsGuard])
    /\ UNCHANGED <<AUDIO_SAMPLES, GAME_SAMPLES, AUDIO_SAMPLES_INDICES, p, c,
                   data, gen, ticks, copiedIn, copiedOut, published, released,
                   panic, now, ivars, requests, PREVIOUS_MODIFIER_FLAGS, lib,
                   steady>>
    /\ UNCHANGED <<demo, other, Memory, inputs>>

\* The main thread of platform.rs alone: the timer's ticks, time passing, and
\* the input events AppKit delivers between two handlers or, through a
\* nested run loop, while the user update is running.
FrameNext ==
    \/ Advance
    \/ UpdateLoad
    \/ UpdateUser
    \/ UpdateCopy
    \/ UpdateFetch
    \/ UpdateCasOk
    \/ NestedUpdate
    \/ \E keyCode \in {13, 128} :
          Len(delivered) < MaxDeliveries /\ KeyDown(keyCode, {}, FALSE)
    \/ \E keyCode \in {13, 128} :
          Len(delivered) < MaxDeliveries /\ KeyUp(keyCode, {"Shift"}, FALSE)
    \/ \E deltaX \in {-1, 2} :
          Len(delivered) < MaxDeliveries /\ MouseMoved(deltaX, 1)
    \/ \E current_flags \in {{}, {"Shift"}, {"Control", "Command"}} :
          Len(delivered) < MaxDeliveries /\ FlagsChanged(current_flags)
    \/ Len(delivered) < MaxDeliveries /\ DrawRect

SpecFrame == Init /\ [][FrameNext]_vars

(* ------------------------------- C17 ----------------------------------- *)

\* The panics of RefCell::borrow_mut on the update closure.
BorrowPanics ==
    {"update: already borrowed: BorrowMutError",
     "key event: already borrowed: BorrowMutError",
     "mouse_moved: already borrowed: BorrowMutError",
     "flags_changed: already borrowed: BorrowMutError"}

\* C17: a tick or an input delivery that finds the update closure already
\* borrowed is dropped, it does not panic: no handler has ever aborted on
\* the borrow.
C17_DeniedIsDropped == panic \notin BorrowPanics

(* ------------------------ lib.rs GameView ------------------------------ *)

\* lib.rs 303-332: update delivered between two handlers.  last_time is
\* replaced by now before the frame buffer is asked for; nothing has borrowed
\* fb, so try_borrow_mut succeeds and the user update starts.
LibUpdate ==
    /\ lib.pc = "idle"
    /\ lib.ticks + lib.drops < MaxTicks
    /\ lib' = [lib EXCEPT !.last_time = now,
                          !.fb = "mut",
                          !.update = "borrowed",
                          !.pc = "user",
                          !.displayed = FALSE,
                          !.granted = Append(@, now),
                          !.deltas = Append(@, now - lib.last_time)]
    /\ UNCHANGED <<AUDIO_SAMPLES, GAME_SAMPLES, AUDIO_SAMPLES_INDICES, p, c,
                   data, gen, ticks, copiedIn, copiedOut, published, released,
                   panic, now, ivars, requests, PREVIOUS_MODIFIER_FLAGS,
                   delivered, steady>>
    /\ UNCHANGED <<demo, other, Memory, inputs>>

\* lib.rs 320-330: the user update returns, setNeedsDisplay(true), both
\* borrows end.
LibUpdateReturn ==
    /\ lib.pc = "user"
    /\ lib' = [lib EXCEPT !.fb = "free", !.update = "free", !.pc = "idle",
                          !.displayed = TRUE, !.ticks = @ + 1]
    /\ UNCHANGED <<AUDIO_SAMPLES, GAME_SAMPLES, AUDIO_SAMPLES_INDICES, p, c,
                   data, gen, ticks, copiedIn, copiedOut, published, released,
                   panic, now, ivars, requests, PREVIOUS_MODIFIER_FLAGS,
                   delivered, steady>>
    /\ UNCHANGED <<demo, other, Memory, inputs>>

\* lib.rs 270-301: draw_rect borrows fb shared while it draws.
LibDrawRect ==
    /\ lib.pc = "idle"
    /\ lib' = [lib EXCEPT !.fb = "shared", !.pc = "draw"]
    /\ UNCHANGED <<AUDIO_SAMPLES, GAME_SAMPLES, AUDIO_SAMPLES_INDICES, p, c,
                   data, gen, ticks, copiedIn, copiedOut, published, released,
                   panic, now, ivars, requests, PREVIOUS_MODIFIER_FLAGS,
                   delivered, steady>>
    /\ UNCHANGED <<demo, other, Memory, inputs>>

\* lib.rs 301: draw_rect returns, the shared borrow ends.
LibDrawRectReturn ==
    /\ lib.pc = "draw"
    /\ lib' = [lib EXCEPT !.fb = "free", !.pc = "idle"]
    /\ UNCHANGED <<AUDIO_SAMPLES, GAME_SAMPLES, AUDIO_SAMPLES_INDICES, p, c,
                   data, gen, ticks, copiedIn, copiedOut, published, released,
                   panic, now, ivars, requests, PREVIOUS_MODIFIER_FLAGS,
                   delivered, steady>>
    /\ UNCHANGED <<demo, other, Memory, inputs>>

\* lib.rs 303-332: update delivered by a nested run loop while the user
\* update or draw_rect holds fb.  last_time is replaced by now (307-313);
\* then try_borrow_mut fails and the tick is skipped.
LibNestedUpdate ==
    /\ lib.pc \in {"user", "draw"}
    /\ lib.fb # "free"
    /\ lib.ticks + lib.drops < MaxTicks
    /\ lib' = [lib EXCEPT !.last_time = now, !.drops = @ + 1]
    /\ UNCHANGED <<AUDIO_SAMPLES, GAME_SAMPLES, AUDIO_SAMPLES_INDICES, p, c,
                   data, gen, ticks, copiedIn, copiedOut, published, released,
                   panic, now, ivars, requests, PREVIOUS_MODIFIER_FLAGS,
                   delivered, steady>>
    /\ UNCHANGED <<demo, other, Memory, inputs>>

LibNext ==
    \/ Advance
    \/ LibUpdate
    \/ LibUpdateReturn
    \/ LibDrawRect
    \/ LibDrawRectReturn
    \/ LibNestedUpdate

SpecLib == Init /\ [][LibNext]_vars

(* ------------------------------- C18 ----------------------------------- *)

\* The time of the granted tick before the i-th one, or of construction.
PreviousGranted(i) == IF i = 1 THEN 0 ELSE lib.granted[i - 1]

\* C18: the delta handed to the user update of each granted tick is the time
\* from the previous granted tick to this one, and a dropped tick leaves
\* last_time alone: last_time is the time of the last granted tick.
C18_DeltaSinceGrantedTick ==
    /\ \A i \in 1 .. Len(lib.granted) :
          lib.deltas[i] = lib.granted[i] - PreviousGranted(i)
    /\ lib.last_time = PreviousGranted(Len(lib.granted) + 1)

(* ------------------------------- C19 ----------------------------------- *)

\* The steps of update's tick in the order of the source: the closure is
\* borrowed ("user"), the user update runs and presentation is requested
\* ("copy", or "fetch" when there is nothing to copy), the samples are
\* copied, the index is read ("cas") and published ("idle").
TickOrder ==
    {<<"idle", "user">>, <<"user", "copy">>, <<"user", "fetch">>,
     <<"copy", "fetch">>, <<"fetch", "cas">>, <<"cas", "idle">>}

\* The Update requests the closure has received.
UpdateRequests == SelectSeq(requests, LAMBDA r : r.kind = "Update")

\* The tick has called the user update and has not yet published its samples.
TickPresented == p.pc \in {"copy", "fetch", "cas"}

\* C19 as stated: presentation is never requested before the samples of the
\* same tick are published to the ring.
C19_Original == TickPresented => ~p.displayed

\* C19: a tick goes through Idle, Updated, Presented, AudioFilled, Idle in
\* that order and skips no step: the user update runs once, right after it
\* setNeedsDisplay is called, and only then are the samples copied to the
\* ring and the write index published.  The tick itself applies no input.
C19_TickOrder ==
    /\ [](/\ p.pc = "user" => (~p.displayed /\ Len(UpdateRequests) = ticks)
          /\ TickPresented => (p.displayed /\ Len(UpdateRequests) = ticks + 1)
          /\ p.pc = "idle" => Len(UpdateRequests) = ticks
          /\ TickPresented => published + p.copied = Len(copiedIn))
    /\ [][/\ p'.pc # p.pc => <<p.pc, p'.pc>> \in TickOrder
          /\ published' # published => (p.displayed /\ p.pc = "cas" /\ p'.pc = "idle")
          /\ p'.pc # p.pc =>
                requests' = IF p.pc = "user"
                            THEN Append(requests, UpdateRequest(p.delta))
                            ELSE requests]_vars

\* A tick that has requested presentation while its samples are in
\* GAME_SAMPLES only: none is copied to the ring, the write index is the one
\* the tick loaded.
C19_Witness ==
    /\ p.pc = "copy"
    /\ p.displayed
    /\ p.copied = 0
    /\ p.samples_to_write > 0
    /\ WriteHalf(AUDIO_SAMPLES_INDICES) = p.write_index
    /\ requests # <<>>
    /\ requests[Len(requests)].kind = "Update"

(* ------------------------------- C20 ----------------------------------- *)

\* The Input requests the closure has received.
InputRequests == SelectSeq(requests, LAMBDA r : r.kind = "Input")

\* The modifier mask flags_changed held when event i was delivered: that of
\* the last flagsChanged event before it, or none.
RECURSIVE PreviousFlagsAt(_)
PreviousFlagsAt(i) ==
    IF i = 1 THEN {}
    ELSE IF delivered[i - 1].type = "flagsChanged"
         THEN delivered[i - 1].modifierFlags
         ELSE PreviousFlagsAt(i - 1)

\* What the handler of event i passes to the closure when it acquires it.
ForwardedBy(i) ==
    LET e == delivered[i] IN
    CASE e.type = "flagsChanged" ->
            FlagRequests(e.modifierFlags,
                         Changed(e.modifierFlags, PreviousFlagsAt(i)), 1)
      [] e.type \in {"keyDown", "keyUp"} ->
            IF e.keyCode \in DOMAIN KEY_CODE_LUT
            THEN <<InputRequest(Key(KEY_CODE_LUT[e.keyCode],
                                    KeyModifiersFrom(e.modifierFlags),
                                    e.type = "keyDown", e.isARepeat))>>
            ELSE <<>>
      [] e.type = "mouseMoved" ->
            <<InputRequest([type |-> "MouseMoved", dx |-> e.deltaX,
                            dy |-> e.deltaY])>>
      [] e.type = "drawRect" -> <<>>

\* What the handlers of the events 1 .. n pass to the closure.
RECURSIVE ForwardedUpTo(_)
ForwardedUpTo(n) ==
    IF n = 0 THEN <<>> ELSE ForwardedUpTo(n - 1) \o ForwardedBy(n)

\* C20 as stated: between two ticks nothing has reached the application
\* since the last user update; an event waits for the next tick.
C20_Original ==
    (p.pc = "idle" /\ requests # <<>>) =>
        requests[Len(requests)].kind = "Update"

\* C20: no event is buffered.  Whenever no handler is running, every event
\* delivered so far has already been passed to the closure by its own
\* handler, in delivery order, as PlatformRequest::Input; a handler that
\* panics passes nothing, and its event is the last one delivered.  A tick
\* passes the closure its Update request and no input.
C20_ForwardedAtDelivery ==
    /\ [](/\ panic = "none" => InputRequests = ForwardedUpTo(Len(delivered))
          /\ panic # "none" =>
                \/ InputRequests = ForwardedUpTo(Len(delivered))
                \/ /\ delivered # <<>>
                   /\ InputRequests = ForwardedUpTo(Len(delivered) - 1))
    /\ [][delivered' = delivered =>
             \/ requests' = requests
             \/ requests' = Append(requests, UpdateRequest(p.delta))]_vars

\* Between two ticks, with the first tick done, a key event has been
\* delivered and the closure has already received it: the last request is
\* that key, after the tick's Update.
C20_Witness ==
    /\ p.pc = "idle"
    /\ ticks = 1
    /\ panic = "none"
    /\ Len(requests) >= 2
    /\ requests[Len(requests)].kind = "Input"
    /\ requests[Len(requests)].input.type = "Key"
    /\ requests[Len(requests) - 1].kind = "Update"
    /\ delivered[Len(delivered)].type = "keyDown"

(* ------------------------------- C21 ----------------------------------- *)

\* The ways audio_callback can abort: a failing assertion, a subtraction
\* below zero, an index outside AUDIO_SAMPLES.
CallbackPanics ==
    {"audio_callback: assert_eq!(wrapped_write_index % CHANNELS, 0)",
     "audio_callback: assert_eq!(read_index % CHANNELS, 0)",
     "audio_callback: available_samples underflow",
     "audio_callback: AUDIO_SAMPLES[index] out of range"}

\* C21: given one destination buffer of frames * CHANNELS samples, the
\* callback never aborts: no assertion of it fails, every index it uses on
\* the ring and on the destination is in range, and once started it always
\* has a next step until it returns (the exchange's unwrap cannot fail, the
\* closure always gives Some).
C21_CallbackNeverAborts ==
    /\ panic \notin CallbackPanics
    /\ c.pc = "copy" =>
          /\ c.index \in Slots
          /\ c.index + (CHANNELS - 1) \in Slots
          /\ c.copied \in DOMAIN data
          /\ c.copied < c.frames_to_read * CHANNELS
    /\ c.pc = "fill" =>
          /\ c.frames_to_read <= c.frames
          /\ \A i \in c.frames_to_read .. (c.frames - 1) :
                /\ i * CHANNELS \in DOMAIN data
                /\ i * CHANNELS + 1 \in DOMAIN data
    /\ c.pc # "idle" => ENABLED CallbackStep
    /\ CallbackReturned => c.ret = 0

\* A callback has returned whose snapshot had the write index wrapped below
\* the read index and which drained less than it was asked for.
C21_Witness ==
    /\ CallbackReturned
    /\ panic = "none"
    /\ c.wrapped_write_index < c.read_index
    /\ c.frames_to_read < c.frames
    /\ c.frames_to_read > 0

(* ------------------------------- C22 ----------------------------------- *)

\* C22: the presentation side never reads the pixel buffer while a tick
\* holds it for mutation: no drawRect delivered while the user update was
\* running has read the buffer.
C22_NoDrawDuringUpdate ==
    \A i \in 1 .. Len(delivered) :
        (delivered[i].type = "drawRect" /\ delivered[i].update_running)
            => ~delivered[i].fb_read

(* --------------------------- demo/src/lib.rs --------------------------- *)

\* How many calls of frame_buffer and memory a run makes.
MaxCalls == 6

\* Both functions guarded by the INIT static of frame_buffer.
InitOfFrameBuffer(function) == "frame_buffer"

\* demo/src/lib.rs 14 and 33: each function has an INIT static of its own.
InitOf(function) == function

\* demo/src/lib.rs 21-27 and 40-50: if INIT the call panics; otherwise INIT
\* is set and the static buffer is handed out.  A panic here unwinds out of
\* the call and leaves the statics as they are; later calls can follow.
OnceOnly(function) ==
    /\ Len(demo.calls) < MaxCalls
    /\ IF demo.INIT[InitOf(function)]
       THEN demo' = [demo EXCEPT
                       !.calls = Append(@, [function |-> function,
                                            result |-> "panic"])]
       ELSE demo' = [demo EXCEPT
                       !.INIT[InitOf(function)] = TRUE,
                       !.calls = Append(@, [function |-> function,
                                            result |-> "buffer"])]
    /\ UNCHANGED <<AUDIO_SAMPLES, GAME_SAMPLES, AUDIO_SAMPLES_INDICES, p, c,
                   data, gen, ticks, copiedIn, copiedOut, published, released,
                   panic, now, ivars, requests, PREVIOUS_MODIFIER_FLAGS,
                   delivered, lib, steady, other, Memory, inputs>>

\* demo/src/lib.rs 11-29
frame_buffer == OnceOnly("frame_buffer")

\* demo/src/lib.rs 31-52
memory == OnceOnly("memory")

DemoNext ==
    \/ frame_buffer
    \/ memory

SpecDemo == Init /\ [][DemoNext]_vars

(* ------------------------------- C23 ----------------------------------- *)

\* C23: in any sequence of calls, a call of frame_buffer or of memory hands
\* out its buffer exactly when no earlier call of the same function was
\* made, and panics otherwise; calls of the other function do not count.
C23_OnceOnlyIndependent ==
    \A i \in 1 .. Len(demo.calls) :
        demo.calls[i].result =
            IF \E j \in 1 .. (i - 1) :
                  demo.calls[j].function = demo.calls[i].function
            THEN "panic" ELSE "buffer"

\* memory succeeded after frame_buffer had succeeded and then panicked, and
\* then panicked itself.
C23_Witness ==
    /\ Len(demo.calls) >= 4
    /\ demo.calls[1] = [function |-> "frame_buffer", result |-> "buffer"]
    /\ demo.calls[2] = [function |-> "frame_buffer", result |-> "panic"]
    /\ demo.calls[3] = [function |-> "memory", result |-> "buffer"]
    /\ demo.calls[4] = [function |-> "memory", result |-> "panic"]

(* ------------------------------- C24 ----------------------------------- *)

\* update is between its load of the index and its return.
TickRunning == p.pc # "idle"

\* C24: throughout a tick samples_to_write is the value computed from the
\* two halves of the tick's one load of the index, a multiple of CHANNELS and
\* at most AUDIO_SAMPLES_LEN - CHANNELS.  The user update is handed exactly
\* the first samples_to_write slots of GAME_SAMPLES, exactly that many
\* samples are copied into the ring before the publish, and the publish adds
\* exactly that many to the write index.
C24_ExactlyAvailableToWrite ==
    /\ [](/\ TickRunning =>
                /\ p.samples_to_write
                      = SamplesToWrite(p.write_index, p.wrapped_read_index)
                /\ p.samples_to_write % CHANNELS = 0
                /\ p.samples_to_write <= AUDIO_SAMPLES_LEN - CHANNELS
                /\ p.samples_to_write >= 0
          /\ p.pc = "copy" => p.copied < p.samples_to_write
          /\ p.pc \in {"fetch", "cas"} => p.copied = p.samples_to_write
          /\ TickPresented => Len(copiedIn) = published + p.copied)
    /\ [][/\ (p.pc = "idle" /\ p'.pc = "user") =>
                /\ p'.write_index = WriteHalf(AUDIO_SAMPLES_INDICES)
                /\ p'.wrapped_read_index = ReadHalf(AUDIO_SAMPLES_INDICES)
          /\ (p.pc = "user" /\ p'.pc # "user") =>
                /\ gen' = gen + p.samples_to_write
                /\ \A i \in Slots :
                      GAME_SAMPLES'[i] # GAME_SAMPLES[i] => i < p.samples_to_write
                /\ \A i \in 0 .. (p.samples_to_write - 1) :
                      GAME_SAMPLES'[i] = gen + i + 1
          /\ ProducerPublishes =>
                /\ WriteHalf(AUDIO_SAMPLES_INDICES')
                      = (p.write_index + p.samples_to_write) % AUDIO_SAMPLES_LEN
                /\ published' = published + p.samples_to_write
                /\ Len(copiedIn) = published']_vars

\* A tick that found the largest possible space, copied all of it across the
\* wrap of the ring and is about to publish.
C24_Witness ==
    /\ p.pc = "cas"
    /\ ticks >= 1
    /\ p.samples_to_write = AUDIO_SAMPLES_LEN - CHANNELS
    /\ p.copied = p.samples_to_write
    /\ p.write_index + p.samples_to_write > AUDIO_SAMPLES_LEN

(* ------------------------------- C25 ----------------------------------- *)

\* The ring slot that sample i of the tick's scratch buffer goes to.
RingSlotOf(i) == (p.write_index + i) % AUDIO_SAMPLES_LEN

\* C25: a tick's copy puts scratch sample i into ring slot (w + i) mod
\* capacity for every i below n and touches no other slot: every change of
\* the ring is one step of the copy loop storing GAME_SAMPLES[copied] into
\* slot (w + copied) mod capacity, the scratch buffer does not change while
\* it is copied, and when the copy is done the n slots hold the n scratch
\* samples.  No step of the callback changes a ring slot.
C25_CopyEffect ==
    /\ [](/\ panic = "none"
          /\ p.pc = "copy" => p.index = RingSlotOf(p.copied)
          /\ TickPresented =>
                \A i \in 0 .. (p.copied - 1) :
                    AUDIO_SAMPLES[RingSlotOf(i)] = GAME_SAMPLES[i])
    /\ [][/\ AUDIO_SAMPLES' # AUDIO_SAMPLES =>
                /\ p.pc = "copy"
                /\ p'.copied = p.copied + 1
                /\ AUDIO_SAMPLES' =
                      [AUDIO_SAMPLES EXCEPT
                          ![RingSlotOf(p.copied)] = GAME_SAMPLES[p.copied]]
          /\ GAME_SAMPLES' # GAME_SAMPLES => p.pc = "user"
          /\ CallbackStep => AUDIO_SAMPLES' = AUDIO_SAMPLES]_vars

\* A copy that wrapped: it is done, it started above slot 0 and its last
\* sample went to a slot below its first.
C25_Witness ==
    /\ p.pc = "fetch"
    /\ p.copied = p.samples_to_write
    /\ p.copied >= 4
    /\ RingSlotOf(p.copied - 1) < p.write_index
    /\ AUDIO_SAMPLES[RingSlotOf(p.copied - 1)] = GAME_SAMPLES[p.copied - 1]
    /\ c.pc = "copy"

(* ------------------------- index arithmetic ---------------------------- *)

\* The values either half of the index can have: multiples of CHANNELS below
\* the capacity.
AlignedIndices == {i \in Slots : i % CHANNELS = 0}

\* One tick and one callback each take their snapshot of an index whose two
\* halves are any pair of aligned values.
IndexInit ==
    /\ AUDIO_SAMPLES = [i \in Slots |-> 0]
    /\ GAME_SAMPLES = [i \in Slots |-> 0]
    /\ \E w \in AlignedIndices, r \in AlignedIndices :
          AUDIO_SAMPLES_INDICES = Pack(w, r)
    /\ p = PIdle
    /\ c = CIdle
    /\ data = <<>>
    /\ gen = 0
    /\ ticks = 0
    /\ copiedIn = <<>>
    /\ copiedOut = <<>>
    /\ published = 0
    /\ released = 0
    /\ panic = "none"
    /\ now = 0
    /\ ivars = [last_time |-> 0, update |-> "free"]
    /\ requests = <<>>
    /\ PREVIOUS_MODIFIER_FLAGS = {}
    /\ delivered = <<>>
    /\ lib = LibInit
    /\ steady = SteadyOff
    /\ demo = DemoInit
    /\ other = OtherInit
    /\ Memory = MemoryInit
    /\ inputs = <<>>

IndexNext ==
    \/ UpdateLoad
    \/ \E frames \in 1 .. MaxFrames : CallbackLoad(frames)

SpecIndex == IndexInit /\ [][IndexNext]_vars

(* ------------------------------- C26 ----------------------------------- *)

\* C26: for every pair of aligned halves, the tick's samples_to_write is
\* (read_index - write_index - CHANNELS) mod capacity, and the branch the
\* code takes never goes below zero: read + capacity - write - CHANNELS in
\* the first branch, read - write - CHANNELS in the second.
C26_SamplesToWriteModular ==
    /\ panic = "none"
    /\ LET w == WriteHalf(AUDIO_SAMPLES_INDICES)
           r == ReadHalf(AUDIO_SAMPLES_INDICES)
       IN  /\ IF w >= r
              THEN r + AUDIO_SAMPLES_LEN - w - CHANNELS >= 0
              ELSE r - w - CHANNELS >= 0
           /\ SamplesToWrite(w, r) >= 0
           /\ SamplesToWrite(w, r) = (r - w - CHANNELS) % AUDIO_SAMPLES_LEN
           /\ p.pc = "user" =>
                 /\ p.write_index = w
                 /\ p.wrapped_read_index = r
                 /\ p.samples_to_write = (r - w - CHANNELS) % AUDIO_SAMPLES_LEN

\* A tick computed its space from a read index that has wrapped past the
\* write index: the second branch, with the ring full.
C26_Witness ==
    /\ p.pc = "user"
    /\ p.write_index < p.wrapped_read_index
    /\ p.wrapped_read_index - p.write_index = CHANNELS
    /\ p.samples_to_write = 0

(* ------------------------------- C27 ----------------------------------- *)

\* The callback's snapshot found at least what it was asked for.
Sufficient == c.available_samples >= c.samples_needed

\* C27: a callback whose snapshot finds available_samples >= samples_needed
\* copies exactly samples_needed samples, slot after slot in ring order from
\* the read index, fills nothing with zeros, counts no underrun and makes no
\* log call, and its publish sets the read half to (read_index +
\* samples_needed) mod capacity.
C27_FullDrain ==
    /\ [](/\ (c.calls = 1 /\ Sufficient) =>
                /\ c.samples_to_read = c.samples_needed
                /\ c.frames_to_read = c.frames
                /\ c.underruns = 0
                /\ c.allocations = 0
                /\ c.blocking_calls = 0
                /\ c.copied <= c.samples_needed
                /\ c.pc = "copy" =>
                      c.index = (c.read_index + c.copied - (c.copied % CHANNELS))
                                   % AUDIO_SAMPLES_LEN
          /\ (CallbackFilled /\ Sufficient) => c.copied = c.samples_needed
          /\ (c.pc \in {"fetch", "cas"} /\ Sufficient) =>
                \A k \in 0 .. (c.samples_needed - 1) :
                    data[k] = AUDIO_SAMPLES[(c.read_index + k) % AUDIO_SAMPLES_LEN]
          /\ (CallbackReturned /\ Sufficient) =>
                ReadHalf(AUDIO_SAMPLES_INDICES)
                   = (c.read_index + c.samples_needed) % AUDIO_SAMPLES_LEN)
    /\ [][(ConsumerPublishes /\ Sufficient) =>
             /\ released' = released + c.samples_needed
             /\ ReadHalf(AUDIO_SAMPLES_INDICES')
                   = (c.read_index + c.samples_needed) % AUDIO_SAMPLES_LEN]_vars

\* A callback of several frames found more than it needed, copied across the
\* wrap of the ring and returned.
C27_Witness ==
    /\ CallbackReturned
    /\ c.available_samples > c.samples_needed
    /\ c.frames >= 2
    /\ c.read_index + c.samples_needed > AUDIO_SAMPLES_LEN
    /\ c.underruns = 0
    /\ data[0] > 0

(* ------------------------------- C28 ----------------------------------- *)

\* The tick's compare-and-swap failed and its closure runs again.
ProducerRetries == p.pc = "cas" /\ p'.pc = "cas" /\ p' # p

\* C28: each tick calls the user update once and publishes once.  The
\* closure has received one Update request per finished tick, and one more
\* once the running tick is past its user update.  The write half changes
\* only when a tick publishes, a tick returns only by publishing, and what it
\* publishes is (write_index + samples_to_write) mod capacity over the
\* snapshot's write_index, however often the compare-and-swap was retried; a
\* retry changes neither the index nor what the tick will publish.
C28_OnceAndExact ==
    /\ [](/\ Len(UpdateRequests) = ticks + (IF TickPresented THEN 1 ELSE 0)
          /\ p.pc = "idle" => published = Len(copiedIn)
          /\ WriteHalf(AUDIO_SAMPLES_INDICES) = (2 + published) % AUDIO_SAMPLES_LEN
          /\ TickRunning => WriteHalf(AUDIO_SAMPLES_INDICES) = p.write_index)
    /\ [][/\ WriteHalf(AUDIO_SAMPLES_INDICES') # WriteHalf(AUDIO_SAMPLES_INDICES)
                => ProducerPublishes
          /\ ticks' # ticks => (ProducerPublishes /\ ticks' = ticks + 1)
          /\ ProducerPublishes =>
                /\ WriteHalf(AUDIO_SAMPLES_INDICES')
                      = (p.write_index + p.samples_to_write) % AUDIO_SAMPLES_LEN
                /\ ReadHalf(AUDIO_SAMPLES_INDICES') = ReadHalf(AUDIO_SAMPLES_INDICES)
                /\ published' = published + p.samples_to_write
                /\ ticks' = ticks + 1
          /\ ProducerRetries =>
                /\ AUDIO_SAMPLES_INDICES' = AUDIO_SAMPLES_INDICES
                /\ p'.write_index = p.write_index
                /\ p'.samples_to_write = p.samples_to_write
                /\ requests' = requests
                /\ ticks' = ticks]_vars

\* The second tick has published its samples over its snapshot's write
\* index although the callback published after that snapshot: the exchange
\* that succeeded ran on an index whose read half is not the snapshot's.
C28_Witness ==
    /\ p.pc = "idle"
    /\ ticks = 2
    /\ p.samples_to_write > 0
    /\ WriteHalf(AUDIO_SAMPLES_INDICES)
          = (p.write_index + p.samples_to_write) % AUDIO_SAMPLES_LEN
    /\ ReadHalf(p.current_indices) # p.wrapped_read_index
    /\ Len(UpdateRequests) = 2
    /\ c.pc = "idle"

(* ------------------------------- C29 ----------------------------------- *)

\* platform.rs 438-493 run by a second tick on the same statics: the running
\* tick is suspended with its locals and its view, and the other one goes on
\* from where it was suspended.  AUDIO_SAMPLES, GAME_SAMPLES and
\* AUDIO_SAMPLES_INDICES are statics (platform.rs 495-500), so both ticks use
\* the same ones.
SwitchTick ==
    /\ panic = "none"
    /\ p' = other.p
    /\ ivars' = other.ivars
    /\ other' = [p |-> p, ivars |-> ivars]
    /\ UNCHANGED <<AUDIO_SAMPLES, GAME_SAMPLES, AUDIO_SAMPLES_INDICES, c, data,
                   gen, ticks, copiedIn, copiedOut, published, released, panic,
                   now, requests, PREVIOUS_MODIFIER_FLAGS, delivered, lib,
                   steady, demo, Memory, inputs>>

TwoTicksNext ==
    \/ UpdateLoad
    \/ UpdateUser
    \/ UpdateCopy
    \/ UpdateFetch
    \/ UpdateCasOk
    \/ UpdateCasRetry
    \/ SwitchTick

SpecTwoTicks == Init /\ [][TwoTicksNext]_vars

\* Two ticks that loaded the same write position have both copied their
\* samples and both published.
BothPublished ==
    /\ ticks = 2
    /\ p.pc = "idle"
    /\ other.p.pc = "idle"
    /\ p.samples_to_write > 0
    /\ other.p.samples_to_write > 0
    /\ p.write_index = other.p.write_index

\* The samples copied into the ring that the consumer has neither released
\* nor can still reach through the packed index.
SamplesLost ==
    (CHANNELS + Len(copiedIn)) - released
        - AvailableSamples(WriteHalf(AUDIO_SAMPLES_INDICES),
                           ReadHalf(AUDIO_SAMPLES_INDICES))

\* C29: with two ticks running on the same ring, whenever both loaded the
\* same write position and both published, the published write position is
\* that of one tick alone, not the position after the samples of both, and
\* samples that were copied and never released are outside the region the
\* consumer can read.
C29_TwoProducersLoseSamples ==
    BothPublished =>
        /\ WriteHalf(AUDIO_SAMPLES_INDICES)
              \in { NewWriteIndex(p.write_index, p.samples_to_write),
                    NewWriteIndex(other.p.write_index, other.p.samples_to_write) }
        /\ WriteHalf(AUDIO_SAMPLES_INDICES)
              # NewWriteIndex(NewWriteIndex(p.write_index, p.samples_to_write),
                              other.p.samples_to_write)
        /\ SamplesLost > 0

\* Both ticks loaded the initial index, both copied into the same slots and
\* both published, and the consumer has not run: one tick's samples are
\* overwritten in the ring and missing from the write position.
C29_Witness ==
    /\ BothPublished
    /\ released = 0
    /\ SamplesLost > 0
    /\ published
         > AvailableSamples(WriteHalf(AUDIO_SAMPLES_INDICES),
                            ReadHalf(AUDIO_SAMPLES_INDICES))

(* ------------------------------- C30 ----------------------------------- *)

\* The main thread and the audio thread are separate threads, and neither
\* fetch_update contains a wait: a thread inside it goes on to its next
\* compare-and-swap.
SpecFair ==
    /\ Init
    /\ [][Next]_vars
    /\ WF_vars(UpdateFetch \/ UpdateCasOk \/ UpdateCasRetry)
    /\ WF_vars(CallbackFetch \/ CallbackCasOk \/ CallbackCasRetry)

\* The callback's compare-and-swap failed and its closure runs again.
ConsumerRetries == c.pc = "cas" /\ c'.pc = "cas" /\ c' # c

\* C30: every index publish terminates.  A retry of the tick's
\* compare-and-swap happens only when the read half differs from the value
\* the tick compared with, that is when the callback published since, and a
\* retry of the callback's only when the write half differs, when a tick
\* published since.  When both are inside their publish, the index equals
\* the value one of them compares with, so one of the two exchanges succeeds:
\* neither waits on the other.  A tick that has reached its publish returns,
\* and so does a callback.
C30_PublishTerminates ==
    /\ [][ProducerRetries =>
            /\ ReadHalf(AUDIO_SAMPLES_INDICES) # ReadHalf(p.current_indices)
            /\ WriteHalf(AUDIO_SAMPLES_INDICES) = WriteHalf(p.current_indices)
            /\ p'.current_indices = AUDIO_SAMPLES_INDICES]_vars
    /\ [][ConsumerRetries =>
            /\ WriteHalf(AUDIO_SAMPLES_INDICES) # WriteHalf(c.current_indices)
            /\ ReadHalf(AUDIO_SAMPLES_INDICES) = ReadHalf(c.current_indices)
            /\ c'.current_indices = AUDIO_SAMPLES_INDICES]_vars
    /\ []((p.pc = "cas" /\ c.pc = "cas") =>
            \/ AUDIO_SAMPLES_INDICES = p.current_indices
            \/ AUDIO_SAMPLES_INDICES = c.current_indices)
    /\ (p.pc \in {"fetch", "cas"}) ~> (p.pc = "idle")
    /\ (c.pc \in {"fetch", "cas"}) ~> (c.pc = "idle")

\* Both sides are inside their publish and the tick's compare-and-swap is
\* about to fail, because the callback published after the tick read the
\* index: the tick has to retry while the callback is publishing again.
C30_Witness ==
    /\ p.pc = "cas"
    /\ c.pc = "cas"
    /\ AUDIO_SAMPLES_INDICES # p.current_indices
    /\ AUDIO_SAMPLES_INDICES = c.current_indices

(* ------------------------------- C31 ----------------------------------- *)

\* The hardware keeps invoking audio_callback with frames >= 1, and an
\* invoked callback runs to its return: nothing in platform.rs 502-562 waits.
SpecInvoked ==
    /\ Init
    /\ [][Next]_vars
    /\ WF_vars(\/ \E frames \in 1 .. MaxFrames : CallbackLoad(frames)
               \/ CallbackCopy
               \/ CallbackFill
               \/ CallbackFetch
               \/ CallbackCasOk
               \/ CallbackCasRetry)

\* The most samples the ticks of one run publish.
MaxPublished == MaxTicks * (AUDIO_SAMPLES_LEN - CHANNELS)

\* Published samples (the pre-published zero frame included) that no
\* callback has copied into a destination buffer yet.
Backlog == (CHANNELS + published) - Len(copiedOut)

\* C31: when the callback keeps being invoked, every published sample is
\* eventually copied into a destination buffer.  The samples copied out are
\* always the first ones of the FIFO order (the pre-published zero frame,
\* then the generations 1, 2, 3, ...), none skipped and none twice, and a
\* copy only ever adds the next one.  So a published sample would stay in
\* the ring forever only if from some point on the backlog stayed positive
\* with nothing copied out any more, and that never happens: again and
\* again the backlog is empty or a sample is copied out.
C31_PublishedIsEventuallyCopied ==
    /\ [](/\ Backlog >= 0
          /\ \A k \in 1 .. Len(copiedOut) : copiedOut[k] = ExpectedSample(k))
    /\ [][\/ copiedOut' = copiedOut
          \/ /\ Len(copiedOut') = Len(copiedOut) + 1
             /\ IsPrefix(copiedOut, copiedOut')]_vars
    /\ \/ []<>(Backlog = 0)
       \/ []<><<copiedOut' # copiedOut>>_vars

\* Every tick of the run has published a whole ring, the last one behind a
\* wrapped write position, and the callback has returned with all of it
\* copied out.
C31_Witness ==
    /\ published = MaxPublished
    /\ Len(copiedOut) = CHANNELS + published
    /\ copiedOut[Len(copiedOut)] = published
    /\ c.pc = "idle"

(* ------------------------------- C32 ----------------------------------- *)

\* Ring slots the running callback still has to read in its copy loop.
PendingReads ==
    IF c.pc = "copy"
    THEN { (c.read_index + k) % AUDIO_SAMPLES_LEN :
             k \in c.copied .. (c.samples_to_read - 1) }
    ELSE {}

\* C32: the callback finishes its copy loop before it publishes the advanced
\* read position.  While it is copying, the read half of the packed index is
\* still the one of its snapshot and the slots it has yet to read are inside
\* the unread region of the index, so no snapshot a tick takes grants them:
\* they are disjoint from the slots the running tick stores into.  Once the
\* callback is publishing, it has read every slot it releases.
C32_ReadBeforeRelease ==
    /\ PendingReads \subseteq Unread(AUDIO_SAMPLES_INDICES)
    /\ PendingReads \cap PendingStores = {}
    /\ c.pc = "copy" => ReadHalf(AUDIO_SAMPLES_INDICES) = c.read_index
    /\ c.pc \in {"fill", "fetch", "cas"} => c.copied = c.samples_to_read

\* The callback is in the middle of a copy of more than one frame, with
\* slots left to read, while a tick is in the middle of its stores, with
\* slots left to store into.
C32_Witness ==
    /\ c.pc = "copy"
    /\ c.copied > 0
    /\ c.samples_to_read > CHANNELS
    /\ PendingReads # {}
    /\ p.pc = "copy"
    /\ p.copied > 0
    /\ PendingStores # {}
    /\ released > 0

(* ------------------------------- C33 ----------------------------------- *)

\* The packed index measures a full ring: nothing left to write.
RingFull ==
    /\ AvailableSamples(WriteHalf(AUDIO_SAMPLES_INDICES),
                        ReadHalf(AUDIO_SAMPLES_INDICES))
          = AUDIO_SAMPLES_LEN - CHANNELS
    /\ SamplesToWrite(WriteHalf(AUDIO_SAMPLES_INDICES),
                      ReadHalf(AUDIO_SAMPLES_INDICES)) = 0

\* A tick has returned and the read half is still the one of its snapshot:
\* no callback has published since the tick loaded the index.
TickUndisturbed ==
    /\ ticks > 0
    /\ p.pc = "idle"
    /\ ReadHalf(AUDIO_SAMPLES_INDICES) = p.wrapped_read_index

\* update is entered (platform.rs 452-464 have run).
TickLoads == p.pc = "idle" /\ p'.pc = "user"

\* C33: a tick fills the ring to capacity.  After a tick during which no
\* callback published, available_to_read = capacity - channel_count and
\* available_to_write = 0.  A tick that starts on a full ring computes
\* samples_to_write = 0; a tick with samples_to_write = 0 hands the user
\* update an empty slice, so GAME_SAMPLES is not written and the copy loop is
\* not entered; and its publish leaves the packed index as it was.
C33_FillsToCapacity ==
    /\ [](TickUndisturbed => RingFull)
    /\ []((p.pc \in {"copy", "fetch", "cas"} /\ p.samples_to_write = 0) =>
             /\ p.pc # "copy"
             /\ p.copied = 0)
    /\ [][(TickLoads /\ RingFull) => p'.samples_to_write = 0]_vars
    /\ [][(p.pc = "user" /\ p.samples_to_write = 0 /\ p'.pc # "user") =>
             /\ GAME_SAMPLES' = GAME_SAMPLES
             /\ AUDIO_SAMPLES' = AUDIO_SAMPLES
             /\ p'.pc = "fetch"]_vars
    /\ [][(ProducerPublishes /\ p.samples_to_write = 0) =>
             AUDIO_SAMPLES_INDICES' = AUDIO_SAMPLES_INDICES]_vars

\* The first tick filled the ring with no callback in between, and a second
\* tick found nothing to write and has returned with the index still full.
C33_Witness ==
    /\ ticks = 2
    /\ released = 0
    /\ p.pc = "idle"
    /\ p.samples_to_write = 0
    /\ published = AUDIO_SAMPLES_LEN - 2 * CHANNELS
    /\ RingFull

(* ------------------------------- C34 ----------------------------------- *)

\* platform.rs 500: AtomicU64::new((2 << 32) | 0).
InitialIndices == Pack(2, 0)

\* A callback whose load returned the initial packed index is running and
\* no callback has published yet: it runs before the first tick's publish.
CallbackOnInitialIndices ==
    /\ c.calls = 1
    /\ c.pc # "idle"
    /\ released = 0
    /\ Pack(c.wrapped_write_index, c.read_index) = InitialIndices

\* C34: until a tick or a callback publishes, the packed index is the
\* initial one, which measures one channel group to read and capacity -
\* 2 * channel_count to write, and the ring is all zero until the first
\* store.  A callback that loaded the initial index reads one frame, slots 0
\* .. CHANNELS - 1, which are zero and which no tick stores into; once it has
\* copied and filled, its first frame is that frame of zeros and the only
\* samples ever copied out, its remaining frames are zero-filled, and it has
\* logged an underrun exactly when it was asked for more than one frame.
C34_InitialFrameOfZeros ==
    /\ (ticks = 0 /\ released = 0) =>
          /\ AUDIO_SAMPLES_INDICES = InitialIndices
          /\ AvailableSamples(WriteHalf(AUDIO_SAMPLES_INDICES),
                              ReadHalf(AUDIO_SAMPLES_INDICES)) = CHANNELS
          /\ SamplesToWrite(WriteHalf(AUDIO_SAMPLES_INDICES),
                            ReadHalf(AUDIO_SAMPLES_INDICES))
                = AUDIO_SAMPLES_LEN - 2 * CHANNELS
    /\ copiedIn = <<>> => \A i \in Slots : AUDIO_SAMPLES[i] = 0
    /\ CallbackOnInitialIndices =>
          /\ c.available_samples = CHANNELS
          /\ c.frames_to_read = 1
          /\ \A i \in 0 .. (CHANNELS - 1) :
                /\ AUDIO_SAMPLES[i] = 0
                /\ i \notin PendingStores
                /\ p.pc = "copy" => i # p.index
          /\ CallbackFilled =>
                /\ copiedOut = [i \in 1 .. CHANNELS |-> 0]
                /\ \A i \in DOMAIN data : data[i] = 0
                /\ c.underruns = (IF c.frames > 1 THEN 1 ELSE 0)

\* A callback asked for several frames loaded the initial index, read the
\* one frame of zeros and zero-filled the rest as an underrun, while the
\* first tick, not yet published, has stored samples of its own.
C34_Witness ==
    /\ CallbackOnInitialIndices
    /\ CallbackFilled
    /\ c.frames > 1
    /\ c.underruns = 1
    /\ ticks = 0
    /\ Len(copiedIn) > 0

(* ---------------------- demo/src/lib.rs handle_input ------------------- *)

\* How many inputs a run hands to handle_input.
MaxInputs == 3

\* The key codes of the inputs: the six that handle_input names and two of
\* those it does not.
DemoKeyCodes ==
    {"KeyW", "KeyS", "KeyA", "KeyD", "Spacebar", "LeftShift", "KeyQ", "Unknown"}

\* handle_input latching a flag once its key was pressed: a release does not
\* clear it.
handle_input_latched(mem, input) ==
    CASE input.code = "KeyW" ->
            [mem EXCEPT !.forward_pressed = @ \/ input.pressed]
      [] input.code = "KeyS" ->
            [mem EXCEPT !.back_pressed = @ \/ input.pressed]
      [] input.code = "KeyA" ->
            [mem EXCEPT !.left_pressed = @ \/ input.pressed]
      [] input.code = "KeyD" ->
            [mem EXCEPT !.right_pressed = @ \/ input.pressed]
      [] input.code = "Spacebar" ->
            [mem EXCEPT !.up_pressed = @ \/ input.pressed]
      [] input.code = "LeftShift" ->
            [mem EXCEPT !.down_pressed = @ \/ input.pressed]
      [] OTHER -> mem

\* demo/src/lib.rs 73-95: handle_input on Input::Key { code, pressed, .. }:
\* the match on code.  (The MouseMoved arm, 96-108, is float arithmetic on
\* yaw and pitch and is not modelled; no input here is a MouseMoved.)
handle_input(mem, input) ==
    CASE input.code = "KeyW" -> [mem EXCEPT !.forward_pressed = input.pressed]
      [] input.code = "KeyS" -> [mem EXCEPT !.back_pressed = input.pressed]
      [] input.code = "KeyA" -> [mem EXCEPT !.left_pressed = input.pressed]
      [] input.code = "KeyD" -> [mem EXCEPT !.right_pressed = input.pressed]
      [] input.code = "Spacebar" -> [mem EXCEPT !.up_pressed = input.pressed]
      [] input.code = "LeftShift" -> [mem EXCEPT !.down_pressed = input.pressed]
      [] OTHER -> mem

\* One call of handle_input with the demo's Memory and a Key input.
HandleInput(input) ==
    /\ Len(inputs) < MaxInputs
    /\ Memory' = handle_input(Memory, input)
    /\ inputs' = Append(inputs, input)
    /\ UNCHANGED <<AUDIO_SAMPLES, GAME_SAMPLES, AUDIO_SAMPLES_INDICES, p, c,
                   data, gen, ticks, copiedIn, copiedOut, published, released,
                   panic, now, ivars, requests, PREVIOUS_MODIFIER_FLAGS,
                   delivered, lib, steady, demo, other>>

InputNext ==
    \E code \in DemoKeyCodes, pressed \in BOOLEAN, repeat \in BOOLEAN :
        HandleInput(Key(code, {}, pressed, repeat))

SpecInput == Init /\ [][InputNext]_vars

(* ------------------------------- C35 ----------------------------------- *)

\* The flag of Memory that belongs to each of the six keys.
FlagOfKey ==
    [KeyW |-> "forward_pressed", KeyS |-> "back_pressed",
     KeyA |-> "left_pressed", KeyD |-> "right_pressed",
     Spacebar |-> "up_pressed", LeftShift |-> "down_pressed"]

\* The pressed value of the last of the first n inputs whose code is key;
\* the flag's initial value when there is none.
RECURSIVE LastPressed(_, _)
LastPressed(key, n) ==
    IF n = 0 THEN MemoryInit[FlagOfKey[key]]
    ELSE IF inputs[n].code = key THEN inputs[n].pressed
    ELSE LastPressed(key, n - 1)

\* The input handle_input is called with in this step.
HandledInput == inputs'[Len(inputs')]

\* C35: a call of handle_input with a Key input of code KeyW, KeyS, KeyA,
\* KeyD, Spacebar or LeftShift sets the matching flag (forward, back, left,
\* right, up, down) to the input's pressed value and changes no other field
\* of Memory; with any other code it changes nothing.  So after any sequence
\* of Key inputs each flag is the pressed value of the last input for its
\* key, and every field that is not a flag is as memory() returned it.
C35_FlagFollowsLastKeyEvent ==
    /\ [][inputs' # inputs =>
            \A field \in DOMAIN Memory :
                Memory'[field] =
                    IF /\ HandledInput.code \in DOMAIN FlagOfKey
                       /\ field = FlagOfKey[HandledInput.code]
                    THEN HandledInput.pressed
                    ELSE Memory[field]]_vars
    /\ [](/\ \A key \in DOMAIN FlagOfKey :
                Memory[FlagOfKey[key]] = LastPressed(key, Len(inputs))
          /\ \A field \in DOMAIN Memory :
                field \notin {FlagOfKey[key] : key \in DOMAIN FlagOfKey}
                    => Memory[field] = MemoryInit[field])

\* W was pressed and released again, with a key that handle_input does not
\* name in between: forward follows the release.
C35_Witness ==
    /\ Len(inputs) = 3
    /\ inputs[1].code = "KeyW" /\ inputs[1].pressed
    /\ inputs[2].code = "KeyQ" /\ inputs[2].pressed
    /\ inputs[3].code = "KeyW" /\ ~inputs[3].pressed
    /\ ~Memory.forward_pressed

=============================================================================
